---- MODULE Spec2Model ----
(***************************************************************************)
(* The report store of the evidence pipeline and the handlers that write   *)
(* and read it: persist (lambdas/persist/main.py) and the officer portal's *)
(* submit_audit and get_history (lambdas/officer_admin_portal/main.py);    *)
(* the stages before persist: ingest, redaction and inference              *)
(* (lambdas/ingest, redaction, inference) with the image codec of ingest; *)
(* the portal's officer directory lookup with its cache; and the audit     *)
(* sink of the table's stream (lambdas/audit_sink/main.py).                *)
(*                                                                         *)
(* Conventions.  A Python string is a sequence of symbols; the symbol " "  *)
(* is white space, every other symbol stands for a run of non-blank        *)
(* characters.  An optional value (None, or a key missing from a dict) is  *)
(* the empty sequence, a present value v is <<v>>.  A wall-clock reading   *)
(* is a number of microseconds; submitted_at and the audit timestamps keep *)
(* the reading, and IsoLess orders two readings as the store orders their  *)
(* ISO-8601 strings.                                                       *)
(***************************************************************************)
EXTENDS Integers, Sequences, FiniteSets, TLC

\* ---------------------------------------------------------------- bounds
MaxClock == 1        \* wall-clock readings are 0..MaxClock
MaxPersists == 2     \* persist invocations in one behaviour
NumCalls == 2        \* submit_audit invocations in one behaviour
MaxHist == 3         \* longest audit_history drawn for the history reads
MaxRaw == 4          \* largest small integer sent as limit or cursor
MaxIngests == 2      \* requests ingest stores or hands on in one behaviour
MaxDetections == 27  \* longest detection list handed to persist
MaxLookups == 2      \* directory lookups counted per username
MaxPhotoSize == 40   \* largest photo, in bytes, handed to the image codec

\* ------------------------------------------------------ program constants
MicrosPerSecond == 1000000
StatusMaxLength == 64
NotesMaxLength == 2000
HistoryLimitDefault == 10
LimitMinimum == 1
LimitMaximum == 100
OffsetDefault == 0
_MAX_STORED_DETECTIONS == 25
MinCompressionRatioPercent == 95
LatitudeMinimum == -90
LatitudeMaximum == 90
LongitudeMinimum == -180
LongitudeMaximum == 180

\* ------------------------------------------------------------- optionals
None == <<>>
Some(v) == <<v>>

Min(a, b) == IF a < b THEN a ELSE b

\* ------------------------------------------------------------- strings
Blank == " "

RECURSIVE LStrip(_)
LStrip(s) == IF s # <<>> /\ Head(s) = Blank THEN LStrip(Tail(s)) ELSE s

RECURSIVE RStrip(_)
RStrip(s) ==
    IF s # <<>> /\ s[Len(s)] = Blank THEN RStrip(SubSeq(s, 1, Len(s) - 1)) ELSE s

\* str.strip()
Strip(s) == RStrip(LStrip(s))

\* value[:n]
Prefix(s, n) == SubSeq(s, 1, Min(n, Len(s)))

\* persist._clean_string; max_length is None or Some(n)
CleanString(value, max_length) ==
    IF value = None THEN None
    ELSE LET v == Strip(value[1]) IN
         IF v = <<>> THEN None
         ELSE IF max_length # None THEN Some(Prefix(v, max_length[1]))
         ELSE Some(v)

\* ------------------------------------------------------------- the store
ReportIds == {<<"r1">>, <<"r2">>}
UuidPool == {<<"u1">>}
Times == 0..MaxClock
Keys == (ReportIds \cup UuidPool) \X Times

\* datetime.isoformat() prints a reading with no microseconds as
\* "...:SSZ" and any other as "...:SS.ffffffZ"; "." sorts before "Z", so
\* within one second the whole-second reading sorts last.
IsoLess(a, b) ==
    LET sa == a \div MicrosPerSecond
        sb == b \div MicrosPerSecond
        fa == a % MicrosPerSecond
        fb == b % MicrosPerSecond
    IN  \/ sa < sb
        \/ sa = sb /\ fa # 0 /\ (fb = 0 \/ fa < fb)

VARIABLES
    clock,          \* the wall clock read by utcnow()
    table,          \* the reports table: key -> None or Some(item)
    persistOut,     \* how many persist calls returned each (report_id, submitted_at)
    pc,             \* position of each submit_audit call
    report_id,      \* its path parameter
    audit_entry,    \* the entry it built
    item_key,       \* the item its lookup query returned
    response,       \* its HTTP response
    historyEvent,   \* the last get_history request
    historyResponse,\* and its response
    alerts,         \* sns.publish calls made by persist, per report_id
    persistResult,  \* how the last persist call went
    bucket,         \* the raw bucket: the objects ingest has put
    executions,     \* the orchestrator executions ingest has started
    ingestEvent,    \* the body of the last request to ingest
    ingestResponse, \* and its response
    evidence,       \* the objects redaction has put: key -> None or Some(bytes)
    redactionEvent, \* the event redaction was last called with
    redactionOut,   \* how the last redaction call went
    inferenceOut,   \* how the last inference call went
    officer_cache,  \* _officer_cache of the portal process
    officerIn,      \* the officer _enrich_officer_details was last called with
    officerOut,     \* and the officer it returned
    lookups,        \* admin_get_user calls made so far, per username
    codecIn,        \* the photo _compress_photo was last called with
    codecOut,       \* and the bytes and content type it returned
    pager,          \* a client that reads a history page by page
    auditObjects,   \* the objects of the audit bucket, by key
    streamed        \* the stream records handed to audit_sink so far

\* the variables of persist's notification
notifyVars == <<alerts, persistResult>>

\* the variables of the pipeline stages and of the officer directory
stageVars == <<bucket, executions, ingestEvent, ingestResponse, evidence,
               redactionEvent, redactionOut, inferenceOut, officer_cache,
               officerIn, officerOut, lookups>>

\* the variables of the photo codec, the history client and the audit sink
sideVars == <<codecIn, codecOut, pager, auditObjects, streamed>>

vars == <<clock, table, persistOut, pc, report_id, audit_entry, item_key,
          response, historyEvent, historyResponse, notifyVars, stageVars,
          sideVars>>

Calls == 1..NumCalls

PENDING_REVIEW == <<"PENDING_REVIEW">>
APPROVED == <<"APPROVED">>
REJECTED == <<"REJECTED">>
NEEDS_REVIEW == <<"NEEDS_REVIEW">>

\* ------------------------------------------------------------- persist
\* The event persist is invoked with, as the orchestrator hands it over
\* (ingest passes the client's body through); every key is missing here.
\* A value that may be a dict, a list or something else carries its kind.
BareEvent ==
    [request_id |-> None, status |-> None, notes |-> None, assets |-> None,
     location |-> None, weather_snapshot |-> None, detections |-> None,
     inference |-> None, total_detections |-> None]

PersistEvents ==
    {[BareEvent EXCEPT !.request_id = Some(<<" ", "r1">>)],
     [BareEvent EXCEPT !.request_id = Some(<<"r1">>),
                       !.status = Some(APPROVED),
                       !.notes = Some(<<"n", " ">>)],
     [BareEvent EXCEPT !.status = Some(<<" ">>)]}

\* JSON values below the top level: null, a string, a map with its keys
JsonNull == [kind |-> "null", keys |-> {}]
JsonString == [kind |-> "string", keys |-> {}]
JsonMap(keys) == [kind |-> "map", keys |-> keys]

\* a dict, as the mapping of its keys to values
Dict(entries) == [kind |-> "dict", entries |-> entries]
NotADict == [kind |-> "other", entries |-> <<>>]

\* _ensure_dict: the value if it is a dict, else {}
EnsureDict(value) ==
    IF value # None /\ value[1].kind = "dict" THEN value[1].entries ELSE <<>>

\* _prepare_location: both coordinates or nothing (accuracy_m and
\* captured_at are left out of the model)
PrepareLocation(location) ==
    IF location = None \/ location[1].kind # "dict" THEN None
    ELSE LET loc == location[1].entries IN
         IF loc.latitude = None \/ loc.longitude = None THEN None
         ELSE Some([latitude |-> loc.latitude[1],
                    longitude |-> loc.longitude[1]])

\* _prepare_weather, for the source and api_status of the snapshot:
\* "prepared or None"
PrepareWeather(snapshot) ==
    IF snapshot = None \/ snapshot[1].kind # "dict" THEN None
    ELSE LET prepared ==
                [source |-> CleanString(snapshot[1].entries.source, Some(255)),
                 api_status |->
                    CleanString(snapshot[1].entries.api_status, Some(64))]
         IN  IF prepared.source = None /\ prepared.api_status = None
             THEN None
             ELSE Some(prepared)

List(items) == [kind |-> "list", items |-> items]

\* dict.get: the value under the key, none when the key is missing
Get(entries, key) == IF key \in DOMAIN entries THEN entries[key] ELSE None

\* The numbers of an event.  An int n; a float written units * 10^-scale
\* (1.5 is Float(15, 1)); inf or nan; and a string Decimal() rejects.
IntNum(n) == [kind |-> "int", units |-> n, scale |-> 0]
Float(units, scale) == [kind |-> "float", units |-> units, scale |-> scale]
NonFiniteFloat == [kind |-> "non_finite", units |-> 0, scale |-> 0]
NotANumber == [kind |-> "text", units |-> 0, scale |-> 0]

\* a Decimal: units * 10^-scale
Dec(units, scale) == [units |-> units, scale |-> scale]

RECURSIVE Pow10(_)
Pow10(k) == IF k = 0 THEN 1 ELSE 10 * Pow10(k - 1)

\* f"{value:.{precision}f}": the units of the float rounded to precision
\* decimals (no float drawn below lies half way between two of them)
Formatted(value, precision) ==
    IF value.scale <= precision
    THEN value.units * Pow10(precision - value.scale)
    ELSE LET d == Pow10(value.scale - precision)
             q == value.units \div d
             r == value.units % d
         IN  IF 2 * r > d THEN q + 1
             ELSE IF 2 * r < d THEN q
             ELSE q + (q % 2)

\* _safe_decimal; precision is None or Some(p).  A float is formatted with
\* precision decimals when a precision is given, an int is taken as it is.
SafeDecimal(value, precision) ==
    IF value = None THEN None
    ELSE IF value[1].kind \in {"non_finite", "text"} THEN None
    ELSE IF value[1].kind = "float" /\ precision # None
    THEN Some(Dec(Formatted(value[1], precision[1]), precision[1]))
    ELSE Some(Dec(value[1].units, value[1].scale))

\* an entry of a detection list: a dict with a class_name, a class_id and a
\* confidence (bbox is left out of the model), or not a dict
Detection(class_name, class_id) ==
    [kind |-> "dict", class_name |-> class_name, class_id |-> class_id,
     confidence |-> None]

Scored(class_name, confidence) ==
    [Detection(class_name, None) EXCEPT !.confidence = confidence]

NotADictEntry ==
    [kind |-> "other", class_name |-> None, class_id |-> None,
     confidence |-> None]

\* the detection dict _prepare_detections builds of an entry
SanitizeDetection(entry) ==
    [class_name |-> CleanString(entry.class_name, Some(120)),
     class_id |-> entry.class_id,
     confidence |-> SafeDecimal(entry.confidence, Some(4))]

\* "if detection": some field was usable
Usable(detection) ==
    \/ detection.class_name # None
    \/ detection.class_id # None
    \/ detection.confidence # None

\* mutant: every entry of the list is looked at
PrepareDetectionsUncapped(source) ==
    LET detections ==
            IF source = None THEN None
            ELSE IF source[1].kind = "list" THEN Some(source[1].items)
            ELSE IF /\ source[1].kind = "dict"
                    /\ source[1].entries.detections # None
                    /\ source[1].entries.detections[1].kind = "list"
            THEN Some(source[1].entries.detections[1].items)
            ELSE None
    IN  IF detections = None THEN None
        ELSE LET kept == SelectSeq(detections[1],
                            LAMBDA e : /\ e.kind = "dict"
                                       /\ Usable(SanitizeDetection(e)))
                 sanitized == [i \in 1..Len(kept) |-> SanitizeDetection(kept[i])]
             IN  IF sanitized = <<>> THEN None ELSE Some(sanitized)

\* _prepare_detections: the list, or the list under "detections" of a dict;
\* the first 25 entries are looked at, and those with a usable field kept
PrepareDetections(source) ==
    LET detections ==
            IF source = None THEN None
            ELSE IF source[1].kind = "list" THEN Some(source[1].items)
            ELSE IF /\ source[1].kind = "dict"
                    /\ source[1].entries.detections # None
                    /\ source[1].entries.detections[1].kind = "list"
            THEN Some(source[1].entries.detections[1].items)
            ELSE None
    IN  IF detections = None THEN None
        ELSE LET kept == SelectSeq(Prefix(detections[1], _MAX_STORED_DETECTIONS),
                            LAMBDA e : /\ e.kind = "dict"
                                       /\ Usable(SanitizeDetection(e)))
                 sanitized == [i \in 1..Len(kept) |-> SanitizeDetection(kept[i])]
             IN  IF sanitized = <<>> THEN None ELSE Some(sanitized)

\* event.get("detections") or raw_inference.get("result")
DetectionSource(event) ==
    IF event.detections # None /\
       ~(event.detections[1].kind = "list" /\ event.detections[1].items = <<>>)
    THEN event.detections
    ELSE IF event.inference # None /\ event.inference[1].kind = "dict"
    THEN event.inference[1].entries.result
    ELSE None

\* _first_non_none of three values
FirstNonNone(a, b, c) == IF a # None THEN a ELSE IF b # None THEN b ELSE c

\* _prepare_inference, for total_detections: the root field, else the field
\* of inference.result when that is a dict, else the number of the
\* detections that were kept; then _safe_decimal with precision 0
TotalDetections(event, detections) ==
    LET inference == EnsureDict(event.inference)
        result == Get(inference, "result")
        result_block == EnsureDict(result)
        total_raw ==
            FirstNonNone(event.total_detections,
                         Get(result_block, "total_detections"),
                         Some(IntNum(IF detections = None THEN 0
                                     ELSE Len(detections[1]))))
    IN  SafeDecimal(total_raw, Some(0))

\* The item lambda_handler builds, after the empty assets are popped and
\* _strip_none: a None here is a key the item does not have.  A fresh item
\* carries no audit, audit_updated_at or audit_history attribute.
\* (content_type, filename, the raw object fields, ingest_error,
\* location_context and the other fields of the inference block are left
\* out of the model; the block is never empty when total_detections is
\* there, so the item carries it.)
PersistItem(event, rid, now) ==
    LET status == CleanString(event.status, Some(StatusMaxLength))
        assets == EnsureDict(event.assets)
        detections == PrepareDetections(DetectionSource(event))
    IN
    [report_id |-> rid,
     submitted_at |-> now,
     status |-> IF status # None THEN status[1] ELSE PENDING_REVIEW,
     notes |-> CleanString(event.notes, Some(NotesMaxLength)),
     assets |-> IF DOMAIN assets = {} THEN None ELSE Some(assets),
     location |-> PrepareLocation(event.location),
     weather_snapshot |-> PrepareWeather(event.weather_snapshot),
     detections |-> detections,
     total_detections |-> TotalDetections(event, detections),
     audit |-> None,
     audit_updated_at |-> None,
     audit_history |-> None]

\* table.put_item: creates the row or replaces the whole row under its key
PutItem(t, item) ==
    [t EXCEPT ![<<item.report_id, item.submitted_at>>] = Some(item)]

RowsOf(t, rid) == {k \in Keys : k[1] = rid /\ t[k] # None}

RECURSIVE Sum(_, _)
Sum(f, S) ==
    IF S = {} THEN 0
    ELSE LET x == CHOOSE y \in S : TRUE IN f[x] + Sum(f, S \ {x})

\* the persist calls made so far
Persisted == Sum(persistOut, Keys)

\* sns is created when ALERTS_TOPIC is set
AlertsTopicConfigured == TRUE

\* mutant: the notification is published before the item is put
PersistPublishFirst(event, put_ok, publish_ok) ==
    /\ Persisted < MaxPersists
    /\ \E rid \in ReportIds \cup UuidPool :
        /\ LET given == CleanString(event.request_id, None) IN
           IF given # None THEN rid = given[1]
           ELSE rid \in UuidPool /\ RowsOf(table, rid) = {}
        /\ LET item == PersistItem(event, rid, clock)
               notify == AlertsTopicConfigured /\ item.status = PENDING_REVIEW
           IN  /\ alerts' = IF notify THEN [alerts EXCEPT ![rid] = @ + 1]
                            ELSE alerts
               /\ IF put_ok
                  THEN /\ table' = PutItem(table, item)
                       /\ persistOut' =
                            [persistOut EXCEPT ![<<rid, clock>>] = @ + 1]
                  ELSE UNCHANGED <<table, persistOut>>
               /\ persistResult' =
                    Some([report_id |-> rid,
                          outcome |-> IF put_ok THEN "returned" ELSE "raised",
                          publish |-> IF ~notify THEN "none"
                                      ELSE IF publish_ok THEN "sent"
                                      ELSE "failed"])
    /\ UNCHANGED <<clock, pc, report_id, audit_entry, item_key, response,
                   historyEvent, historyResponse>>
    /\ UNCHANGED <<stageVars, sideVars>>

\* persist.lambda_handler: one unconditional put under
\* (request_id or a fresh uuid4, utcnow()), then one publish when the item's
\* status is PENDING_REVIEW; returns the event with the key.  put_ok and
\* publish_ok are what the store and the topic answer: a failed put raises
\* out of the handler, a failed publish is logged and swallowed.
Persist(event, put_ok, publish_ok) ==
    /\ Persisted < MaxPersists
    /\ \E rid \in ReportIds \cup UuidPool :
        /\ LET given == CleanString(event.request_id, None) IN
           IF given # None THEN rid = given[1]
           ELSE rid \in UuidPool /\ RowsOf(table, rid) = {}
        /\ LET item == PersistItem(event, rid, clock)
               notify == AlertsTopicConfigured /\ item.status = PENDING_REVIEW
           IN  IF ~put_ok
               THEN /\ persistResult' =
                        Some([report_id |-> rid, outcome |-> "raised",
                              publish |-> "none"])
                    /\ UNCHANGED <<table, persistOut, alerts>>
               ELSE /\ table' = PutItem(table, item)
                    /\ persistOut' =
                         [persistOut EXCEPT ![<<rid, clock>>] = @ + 1]
                    /\ alerts' = IF notify THEN [alerts EXCEPT ![rid] = @ + 1]
                                 ELSE alerts
                    /\ persistResult' =
                        Some([report_id |-> rid, outcome |-> "returned",
                              publish |-> IF ~notify THEN "none"
                                          ELSE IF publish_ok THEN "sent"
                                          ELSE "failed"])
    /\ UNCHANGED <<clock, pc, report_id, audit_entry, item_key, response,
                   historyEvent, historyResponse>>
    /\ UNCHANGED <<stageVars, sideVars>>

\* ------------------------------------------------------- submit_audit
\* str.upper(), symbol by symbol
UpperSymbol(ch) ==
    CASE ch = "approved" -> "APPROVED"
      [] ch = "rejected" -> "REJECTED"
      [] ch = "needs_review" -> "NEEDS_REVIEW"
      [] ch = "bogus" -> "BOGUS"
      [] OTHER -> ch

Upper(s) == [i \in DOMAIN s |-> UpperSymbol(s[i])]

allowed_statuses == {APPROVED, REJECTED, NEEDS_REVIEW}

\* Request bodies: not JSON, JSON that is no object, or an object whose
\* status and notes are missing (None) or strings.
BadJson == [kind |-> "invalid_json", status |-> None, notes |-> None]
NotDict == [kind |-> "not_dict", status |-> None, notes |-> None]
Body(status, notes) == [kind |-> "dict", status |-> status, notes |-> notes]

\* The JWT claims of the caller: none, or a sub with a user name.
NoClaims ==
    [email |-> None, name |-> None, sub |-> None, username |-> None]

Ann == [NoClaims EXCEPT !.sub = Some(<<"o2">>), !.username = Some(<<"ann">>)]

AuditEvent(rid, body, claims) ==
    [report_id |-> rid, body |-> body, claims |-> claims]

\* The requests submit_audit is invoked with.
AuditEvents ==
    {AuditEvent(None, Body(Some(APPROVED), None), Ann),
     AuditEvent(Some(<<"r1">>), BadJson, Ann),
     AuditEvent(Some(<<"r1">>), NotDict, Ann),
     AuditEvent(Some(<<"r1">>), Body(None, None), Ann),
     AuditEvent(Some(<<"r1">>), Body(Some(<<" ", "APPROVED">>), None), Ann),
     AuditEvent(Some(<<"r1">>), Body(Some(<<"approved">>), Some(<<" ", "late">>)), Ann),
     AuditEvent(Some(<<"r1">>), Body(Some(REJECTED), Some(<<" ">>)), NoClaims),
     AuditEvent(Some(<<"r2">>), Body(Some(NEEDS_REVIEW), None), Ann)}

\* mutant: the status is validated upper-cased but kept as it was sent
SanitizeAuditPayloadKeepCase(body) ==
    IF body.kind # "dict"
    THEN [ok |-> FALSE, error |-> "invalid_payload", status |-> None, notes |-> None]
    ELSE IF body.status = None \/ Upper(body.status[1]) \notin allowed_statuses
    THEN [ok |-> FALSE, error |-> "invalid_status", status |-> None, notes |-> None]
    ELSE [ok |-> TRUE, error |-> "",
          status |-> body.status,
          notes |-> IF body.notes # None /\ Strip(body.notes[1]) # <<>>
                    THEN Some(Prefix(Strip(body.notes[1]), NotesMaxLength))
                    ELSE None]

\* _sanitize_audit_payload: ok = FALSE stands for the ValueError it raises
SanitizeAuditPayload(body) ==
    IF body.kind # "dict"
    THEN [ok |-> FALSE, error |-> "invalid_payload", status |-> None, notes |-> None]
    ELSE IF body.status = None \/ Upper(body.status[1]) \notin allowed_statuses
    THEN [ok |-> FALSE, error |-> "invalid_status", status |-> None, notes |-> None]
    ELSE [ok |-> TRUE, error |-> "",
          status |-> Some(Upper(body.status[1])),
          notes |-> IF body.notes # None /\ Strip(body.notes[1]) # <<>>
                    THEN Some(Prefix(Strip(body.notes[1]), NotesMaxLength))
                    ELSE None]

\* _remove_none_values(_extract_officer(event)) or {"sub": "unknown"}, with
\* no user pool configured (_enrich_officer_details returns its argument):
\* name falls back to the user name, username to sub.
Officer(claims) ==
    LET officer ==
            [email |-> claims.email,
             name |-> IF claims.name # None THEN claims.name ELSE claims.username,
             sub |-> claims.sub,
             username |-> IF claims.username # None THEN claims.username
                          ELSE claims.sub]
    IN  IF officer = NoClaims
        THEN [NoClaims EXCEPT !.sub = Some(<<"unknown">>)]
        ELSE officer

\* the audit entry of lines 369-375; notes is None when the key is left out
AuditEntry(payload, timestamp, officer) ==
    [status |-> payload.status[1],
     timestamp |-> timestamp,
     officer |-> officer,
     notes |-> payload.notes]

\* _json_response: the status code and the error code of the body
JsonResponse(status, error) ==
    [statusCode |-> status, error |-> error, report |-> None]

\* the 200 response of submit_audit: of the updated row it returns (ALL_NEW)
\* the key and the audit attribute are kept
ReportResponse(updated) ==
    [statusCode |-> 200, error |-> "",
     report |-> Some([report_id |-> updated.report_id,
                      submitted_at |-> updated.submitted_at,
                      audit |-> updated.audit])]

\* mutant: a scan with Limit=1, which ignores the partition key
QueryScan(t, rid) ==
    LET rows == {k \in Keys : t[k] # None} IN
    IF rows = {} THEN <<>>
    ELSE <<t[CHOOSE k \in rows : TRUE][1]>>

\* table.query(report_id = rid, Limit=1): the row of the partition that is
\* first in sort-key order, as a list of at most one item
Query(t, rid) ==
    LET rows == RowsOf(t, rid) IN
    IF rows = {} THEN <<>>
    ELSE LET first == CHOOSE k \in rows :
                          \A o \in rows \ {k} : IsoLess(k[2], o[2])
         IN  <<t[first][1]>>

\* if_not_exists(attribute, default)
IfNotExists(attribute, default) ==
    IF attribute = None THEN default ELSE attribute[1]

\* mutant: the new entry is put in front of the history
UpdateItemPrepend(item, entry) ==
    [item EXCEPT
        !.audit = Some(entry),
        !.audit_updated_at = Some(entry.timestamp),
        !.audit_history = Some(<<entry>> \o IfNotExists(item.audit_history, <<>>))]

\* mutant: audit is written only when the row has none yet
UpdateItemKeepAudit(item, entry) ==
    [item EXCEPT
        !.audit = IF item.audit = None THEN Some(entry) ELSE item.audit,
        !.audit_updated_at = Some(entry.timestamp),
        !.audit_history = Some(IfNotExists(item.audit_history, <<>>) \o <<entry>>)]

\* the UpdateExpression of lines 402-412 applied to the stored item
UpdateItem(item, entry) ==
    [item EXCEPT
        !.audit = Some(entry),
        !.audit_updated_at = Some(entry.timestamp),
        !.audit_history = Some(IfNotExists(item.audit_history, <<>>) \o <<entry>>)]

\* the return statements of _submit_audit: a call that has returned stays at
\* the statement it returned from
ReturnSites ==
    {"return_invalid", "return_not_found", "return_condition_failed",
     "return_report"}

\* return: the response is handed back and the call's locals are gone
Finish(c, site, resp) ==
    /\ pc' = [pc EXCEPT ![c] = site]
    /\ response' = [response EXCEPT ![c] = Some(resp)]
    /\ report_id' = [report_id EXCEPT ![c] = None]
    /\ audit_entry' = [audit_entry EXCEPT ![c] = None]
    /\ item_key' = [item_key EXCEPT ![c] = None]

\* _submit_audit up to the lookup (lines 347-375): validation and the entry.
\* Call slots are interchangeable and are taken in order.
AuditBegin(c, event) ==
    /\ pc[c] = "idle"
    /\ IF c = 1 THEN TRUE ELSE pc[c - 1] # "idle"
    /\ LET payload == SanitizeAuditPayload(event.body) IN
       IF event.report_id = None
       THEN Finish(c, "return_invalid", JsonResponse(400, "missing_report_id"))
       ELSE IF event.body.kind = "invalid_json"
       THEN Finish(c, "return_invalid", JsonResponse(400, "invalid_json"))
       ELSE IF ~payload.ok
       THEN Finish(c, "return_invalid", JsonResponse(400, payload.error))
       ELSE /\ report_id' = [report_id EXCEPT ![c] = event.report_id]
            /\ audit_entry' = [audit_entry EXCEPT ![c] =
                    Some(AuditEntry(payload, clock, Officer(event.claims)))]
            /\ pc' = [pc EXCEPT ![c] = "query"]
            /\ UNCHANGED <<response, item_key>>
    /\ UNCHANGED <<clock, table, persistOut, historyEvent, historyResponse>>
    /\ UNCHANGED <<notifyVars, stageVars, sideVars>>

\* the lookup query (lines 378-400)
AuditQuery(c) ==
    /\ pc[c] = "query"
    /\ LET items == Query(table, report_id[c][1]) IN
       IF items = <<>>
       THEN Finish(c, "return_not_found",
                   JsonResponse(404, "report_not_found"))
       ELSE /\ item_key' = [item_key EXCEPT ![c] = Some(items[1])]
            /\ pc' = [pc EXCEPT ![c] = "update"]
            /\ UNCHANGED <<response, report_id, audit_entry>>
    /\ UNCHANGED <<clock, table, persistOut, historyEvent, historyResponse>>
    /\ UNCHANGED <<notifyVars, stageVars, sideVars>>

\* mutant: a read-modify-write that puts the item of the lookup back
AuditUpdateStale(c) ==
    /\ pc[c] = "update"
    /\ LET key == <<item_key[c][1].report_id, item_key[c][1].submitted_at>> IN
       IF table[key] = None
       THEN Finish(c, "return_condition_failed",
                   JsonResponse(404, "report_not_found"))
            /\ UNCHANGED table
       ELSE LET updated == UpdateItem(item_key[c][1], audit_entry[c][1]) IN
            /\ table' = [table EXCEPT ![key] = Some(updated)]
            /\ Finish(c, "return_report", ReportResponse(updated))
    /\ UNCHANGED <<clock, persistOut, historyEvent, historyResponse>>
    /\ UNCHANGED <<notifyVars, stageVars, sideVars>>

\* mutant: the failed condition is handled by the generic except clause
AuditUpdateGenericError(c) ==
    /\ pc[c] = "update"
    /\ LET key == <<item_key[c][1].report_id, item_key[c][1].submitted_at>> IN
       IF table[key] = None
       THEN Finish(c, "return_condition_failed",
                   JsonResponse(500, "audit_update_failed"))
            /\ UNCHANGED table
       ELSE LET updated == UpdateItem(table[key][1], audit_entry[c][1]) IN
            /\ table' = [table EXCEPT ![key] = Some(updated)]
            /\ Finish(c, "return_report", ReportResponse(updated))
    /\ UNCHANGED <<clock, persistOut, historyEvent, historyResponse>>
    /\ UNCHANGED <<notifyVars, stageVars, sideVars>>

\* the conditional update (lines 402-430): update_item is atomic in the
\* store, and fails its condition when no row has the key
AuditUpdate(c) ==
    /\ pc[c] = "update"
    /\ LET key == <<item_key[c][1].report_id, item_key[c][1].submitted_at>> IN
       IF table[key] = None
       THEN Finish(c, "return_condition_failed",
                   JsonResponse(404, "report_not_found"))
            /\ UNCHANGED table
       ELSE LET updated == UpdateItem(table[key][1], audit_entry[c][1]) IN
            /\ table' = [table EXCEPT ![key] = Some(updated)]
            /\ Finish(c, "return_report", ReportResponse(updated))
    /\ UNCHANGED <<clock, persistOut, historyEvent, historyResponse>>
    /\ UNCHANGED <<notifyVars, stageVars, sideVars>>

\* -------------------------------------------------------- get_history
\* A query-string number is a string of the symbols "0".."9", "-" and others.
Digit(ch) ==
    CASE ch = "0" -> 0 [] ch = "1" -> 1 [] ch = "2" -> 2 [] ch = "3" -> 3
      [] ch = "4" -> 4 [] ch = "5" -> 5 [] ch = "6" -> 6 [] ch = "7" -> 7
      [] ch = "8" -> 8 [] ch = "9" -> 9 [] OTHER -> -1

IsDigits(s) == s # <<>> /\ \A i \in DOMAIN s : Digit(s[i]) >= 0

RECURSIVE DigitsValue(_)
DigitsValue(s) ==
    IF s = <<>> THEN 0
    ELSE 10 * DigitsValue(SubSeq(s, 1, Len(s) - 1)) + Digit(s[Len(s)])

\* int(raw): Some(n), or None for the TypeError / ValueError it raises
ParseInt(raw) ==
    IF raw = None THEN None
    ELSE LET v == Strip(raw[1]) IN
         IF IsDigits(v) THEN Some(DigitsValue(v))
         ELSE IF v # <<>> /\ Head(v) = "-" /\ IsDigits(Tail(v))
         THEN Some(0 - DigitsValue(Tail(v)))
         ELSE None

\* _sanitize_limit
SanitizeLimit(raw, default, minimum, maximum) ==
    LET value == ParseInt(raw) IN
    IF value = None THEN default
    ELSE IF value[1] < minimum THEN minimum
    ELSE IF value[1] > maximum THEN maximum
    ELSE value[1]

\* _sanitize_offset
SanitizeOffset(raw, default) ==
    LET value == ParseInt(raw) IN
    IF value = None THEN default
    ELSE IF value[1] < 0 THEN default
    ELSE value[1]

\* list(reversed(history))
Reversed(h) == [i \in 1..Len(h) |-> h[Len(h) + 1 - i]]

\* ordered[start:end] for 0 <= start <= end
Slice(ordered, start, end) ==
    SubSeq(ordered, start + 1, Min(end, Len(ordered)))

\* mutant: a cursor is returned also when the page ends the history
HistoryPayloadExtraPage(history, limit, offset) ==
    LET ordered == Reversed(history)
        total == Len(ordered)
        start == IF offset < total THEN offset ELSE total
        end == start + limit
        slice_items == Slice(ordered, start, end)
    IN  [statusCode |-> 200,
         error |-> "",
         items |-> slice_items,
         count |-> Len(slice_items),
         total_count |-> total,
         next_cursor |-> IF end <= total THEN Some(end) ELSE None]

\* mutant: the page is cut from the history as stored, oldest entry first
HistoryPayloadOldestFirst(history, limit, offset) ==
    LET ordered == history
        total == Len(ordered)
        start == IF offset < total THEN offset ELSE total
        end == start + limit
        slice_items == Slice(ordered, start, end)
    IN  [statusCode |-> 200,
         error |-> "",
         items |-> slice_items,
         count |-> Len(slice_items),
         total_count |-> total,
         next_cursor |-> IF end < total THEN Some(end) ELSE None]

\* the payload of lines 227-240
HistoryPayload(history, limit, offset) ==
    LET ordered == Reversed(history)
        total == Len(ordered)
        start == IF offset < total THEN offset ELSE total
        end == start + limit
        slice_items == Slice(ordered, start, end)
    IN  [statusCode |-> 200,
         error |-> "",
         items |-> slice_items,
         count |-> Len(slice_items),
         total_count |-> total,
         next_cursor |-> IF end < total THEN Some(end) ELSE None]

HistoryError(status, error) ==
    [statusCode |-> status, error |-> error, items |-> <<>>, count |-> 0,
     total_count |-> 0, next_cursor |-> None]

\* decimal digits of n >= 0, as the client writes a number in the query
RECURSIVE Decimal(_)
Decimal(n) ==
    LET d == <<"0", "1", "2", "3", "4", "5", "6", "7", "8", "9">>[(n % 10) + 1]
    IN  IF n < 10 THEN <<d>> ELSE Decimal(n \div 10) \o <<d>>

\* the limit and cursor parameters sent: missing, junk, negative, padded,
\* small numbers, and numbers around the maximum limit
RawParams ==
    {None, Some(<<"x">>), Some(<<"-", "1">>), Some(<<" ", "2">>)}
    \cup {Some(Decimal(n)) : n \in 0..MaxRaw}
    \cup {Some(Decimal(LimitMaximum)), Some(Decimal(LimitMaximum + 1))}

HistoryEvents ==
    [report_id : {None, Some(<<"r1">>)},
     submitted_at : {None} \cup {Some(t) : t \in Times},
     limit : RawParams,
     cursor : RawParams]

\* _get_report_history, with no user pool configured (_reshape_item leaves
\* the audit entries as stored)
ReportHistory(event) ==
    IF event.report_id = None \/ event.submitted_at = None
    THEN HistoryError(400, "missing_report_identifier")
    ELSE LET limit == SanitizeLimit(event.limit, HistoryLimitDefault,
                                    LimitMinimum, LimitMaximum)
             offset == SanitizeOffset(event.cursor, OffsetDefault)
             item == table[<<event.report_id[1], event.submitted_at[1]>>]
         IN  IF item = None
             THEN HistoryError(404, "report_not_found")
             ELSE HistoryPayload(IfNotExists(item[1].audit_history, <<>>),
                                 limit, offset)

\* a call of get_history
GetReportHistory(event) ==
    /\ historyEvent' = Some(event)
    /\ historyResponse' = Some(ReportHistory(event))
    /\ UNCHANGED <<clock, table, persistOut, pc, report_id, audit_entry,
                   item_key, response>>
    /\ UNCHANGED <<notifyVars, stageVars, sideVars>>

\* A client that reads the history of report r1 page by page: its first
\* call sends cursor 0, every later call the next_cursor of the response
\* before, all with one limit; it stops at a response without next_cursor.
ReadPage(limit) ==
    /\ IF pager = None THEN TRUE
       ELSE ~pager[1].done /\ pager[1].limit = limit
    /\ LET offset == IF pager = None THEN 0 ELSE pager[1].cursor
           collected == IF pager = None THEN <<>> ELSE pager[1].collected
           calls == IF pager = None THEN 0 ELSE pager[1].calls
           event == [report_id |-> Some(<<"r1">>), submitted_at |-> Some(0),
                     limit |-> limit, cursor |-> Some(Decimal(offset))]
           page == ReportHistory(event)
       IN  /\ historyEvent' = Some(event)
           /\ historyResponse' = Some(page)
           /\ pager' = Some([limit |-> limit,
                             cursor |-> IF page.next_cursor = None THEN offset
                                        ELSE page.next_cursor[1],
                             collected |-> collected \o page.items,
                             calls |-> calls + 1,
                             done |-> page.next_cursor = None])
    /\ UNCHANGED <<clock, table, persistOut, pc, report_id, audit_entry,
                   item_key, response>>
    /\ UNCHANGED <<notifyVars, stageVars, codecIn, codecOut, auditObjects,
                   streamed>>

\* ------------------------------------------------------------- ingest
\* A coordinate of the request: a JSON number or a string float() reads as
\* the number n; a string float() rejects; inf or nan; or an integer too
\* large for a float, on which float() raises OverflowError.
Num(n) == [kind |-> "number", n |-> n]
NumStr(n) == [kind |-> "numeric_string", n |-> n]
Text == [kind |-> "text", n |-> 0]
NonFinite == [kind |-> "non_finite", n |-> 0]
Huge == [kind |-> "huge", n |-> 0]

\* _coerce_coordinate; value is None for a missing key or a null.
\* raised stands for the exception the except clause does not catch.
CoerceCoordinate(value, minimum, maximum) ==
    IF value = None \/ value[1].kind = "text"
    THEN [raised |-> FALSE, num |-> None]
    ELSE IF value[1].kind = "huge" THEN [raised |-> TRUE, num |-> None]
    ELSE IF value[1].kind = "non_finite" THEN [raised |-> FALSE, num |-> None]
    ELSE IF value[1].n < minimum \/ value[1].n > maximum
    THEN [raised |-> FALSE, num |-> None]
    ELSE [raised |-> FALSE, num |-> Some(value[1].n)]

\* mutant: the location is kept when one coordinate is valid
SanitizeLocationEither(location) ==
    IF location = None \/ location[1].kind # "dict"
    THEN [raised |-> FALSE, location |-> None]
    ELSE LET lat == CoerceCoordinate(location[1].entries.latitude,
                                     LatitudeMinimum, LatitudeMaximum)
             lon == CoerceCoordinate(location[1].entries.longitude,
                                     LongitudeMinimum, LongitudeMaximum)
         IN  IF lat.raised \/ lon.raised
             THEN [raised |-> TRUE, location |-> None]
             ELSE IF lat.num = None /\ lon.num = None
             THEN [raised |-> FALSE, location |-> None]
             ELSE [raised |-> FALSE,
                   location |-> Some([latitude |-> lat.num,
                                      longitude |-> lon.num])]

\* _sanitize_location (accuracy_m and captured_at are left out): the
\* sanitized dict keeps a coordinate as an optional so that a dict with one
\* coordinate could be told from one with both
SanitizeLocation(location) ==
    IF location = None \/ location[1].kind # "dict"
    THEN [raised |-> FALSE, location |-> None]
    ELSE LET lat == CoerceCoordinate(location[1].entries.latitude,
                                     LatitudeMinimum, LatitudeMaximum)
             lon == CoerceCoordinate(location[1].entries.longitude,
                                     LongitudeMinimum, LongitudeMaximum)
         IN  IF lat.raised \/ lon.raised
             THEN [raised |-> TRUE, location |-> None]
             ELSE IF lat.num = None \/ lon.num = None
             THEN [raised |-> FALSE, location |-> None]
             ELSE [raised |-> FALSE,
                   location |-> Some([latitude |-> lat.num,
                                      longitude |-> lon.num])]

\* base64.b64decode(s, validate=True) of the payloads the requests carry:
\* None stands for binascii.Error
B64Decode(payload) ==
    CASE payload = "aGk=" -> Some("hi")
      [] payload = "" -> Some("")
      [] OTHER -> None

\* photo_base64 with or without a "data:...;base64," prefix before the payload
Photo(prefix, payload) == [prefix |-> prefix, payload |-> payload]

\* the string is empty ("if not photo_b64")
EmptyPhoto(photo) == ~photo.prefix /\ photo.payload = ""

\* the request bodies: not JSON, JSON but no object, or an object
IngestBody(location, photo_base64, notes) ==
    [kind |-> "dict", location |-> location, photo_base64 |-> photo_base64,
     notes |-> notes, request_id |-> None]

\* a request_id the client has put into the body; ingest generates others
ClientRequestId == 0

Coordinates(latitude, longitude) ==
    Some(Dict([latitude |-> latitude, longitude |-> longitude]))

IngestBodies ==
    {[IngestBody(None, None, None) EXCEPT !.kind = "invalid_json"],
     [IngestBody(None, None, None) EXCEPT !.kind = "not_dict"],
     IngestBody(None, None, None),
     IngestBody(Coordinates(Some(Num(1)), Some(Num(103))), None, None),
     IngestBody(Coordinates(Some(Num(91)), Some(Num(103))), None, Some("far")),
     IngestBody(Coordinates(Some(Num(1)), Some(Num(181))), None, None),
     IngestBody(Coordinates(Some(NumStr(-90)), Some(Num(-180))), None, None),
     IngestBody(Coordinates(Some(Text), Some(Num(103))), None, None),
     IngestBody(Coordinates(Some(Num(1)), None), None, None),
     IngestBody(Coordinates(Some(NonFinite), Some(Num(103))), None, None),
     IngestBody(Coordinates(Some(Num(1)), Some(Huge)), None, None),
     IngestBody(Some(NotADict), None, None),
     IngestBody(None, Some(Photo(TRUE, "aGk=")), Some("seen")),
     IngestBody(Coordinates(Some(Num(1)), Some(Num(103))),
                Some(Photo(FALSE, "aGk")), Some("seen")),
     IngestBody(None, Some(Photo(FALSE, "")), None),
     [IngestBody(None, None, Some("mine")) EXCEPT
        !.request_id = Some(ClientRequestId)]}

\* what the weather provider answers
WeatherAnswers ==
    {"unreachable", "status_503", "not_json", "json_array", "no_items",
     "item_not_dict", "no_forecasts", "forecasts"}

\* _fetch_weather_snapshot: the snapshot, None, or an exception raised after
\* the try block (payload.get or latest.get on a value that is no dict)
FetchWeatherSnapshot(answer) ==
    CASE answer \in {"unreachable", "status_503", "not_json"} ->
            [raised |-> FALSE, snapshot |-> None]
      [] answer \in {"json_array", "item_not_dict"} ->
            [raised |-> TRUE, snapshot |-> None]
      [] answer \in {"no_items", "no_forecasts"} ->
            [raised |-> FALSE, snapshot |-> None]
      [] OTHER ->
            [raised |-> FALSE,
             snapshot |-> Some(Dict([source |-> Some(<<"data.gov.sg">>),
                                     api_status |-> Some(<<"healthy">>)]))]

\* the response of ingest, or the exception that left the handler
IngestResponse(status, error, request_id) ==
    [raised |-> FALSE, statusCode |-> Some(status), error |-> error,
     request_id |-> request_id]

IngestRaised ==
    [raised |-> TRUE, statusCode |-> None, error |-> "", request_id |-> None]

RequestIds == 1..MaxIngests

\* the request ids no object and no execution carries
FreshRequestIds ==
    RequestIds \ ({o.request_id : o \in bucket}
                    \cup {e.request_id : e \in executions})

\* mutant: a payload that does not decode fails the request
HandlePhotoStrict(body, request_id, put_ok) ==
    LET photo == body.photo_base64 IN
    IF photo = None \/ EmptyPhoto(photo[1])
    THEN [raised |-> FALSE, object |-> None, ingest_error |-> None,
          photo_base64 |-> None]
    ELSE LET binary == B64Decode(photo[1].payload) IN
         IF binary = None \/ ~put_ok
         THEN [raised |-> TRUE, object |-> None, ingest_error |-> None,
               photo_base64 |-> None]
         ELSE [raised |-> FALSE,
               object |-> Some([request_id |-> request_id,
                                body |-> binary[1]]),
               ingest_error |-> None, photo_base64 |-> None]

\* mutant: the payload is read with get and stays in the body
HandlePhotoKeepPayload(body, request_id, put_ok) ==
    LET photo == body.photo_base64 IN
    IF photo = None \/ EmptyPhoto(photo[1])
    THEN [raised |-> FALSE, object |-> None, ingest_error |-> None,
          photo_base64 |-> photo]
    ELSE LET binary == B64Decode(photo[1].payload) IN
         IF binary = None
         THEN [raised |-> FALSE, object |-> None,
               ingest_error |-> Some("INVALID_BASE64"),
               photo_base64 |-> photo]
         ELSE IF ~put_ok
         THEN [raised |-> TRUE, object |-> None, ingest_error |-> None,
               photo_base64 |-> photo]
         ELSE [raised |-> FALSE,
               object |-> Some([request_id |-> request_id,
                                body |-> binary[1]]),
               ingest_error |-> None, photo_base64 |-> photo]

\* _handle_photo with RAW_BUCKET set: the object it has put, the
\* ingest_error it has set, or the exception of put_object it raises again,
\* and the photo_base64 it leaves in the body: none, the key is popped (the
\* prefix is split off; compression and the filename are left out)
HandlePhoto(body, request_id, put_ok) ==
    LET photo == body.photo_base64 IN
    IF photo = None \/ EmptyPhoto(photo[1])
    THEN [raised |-> FALSE, object |-> None, ingest_error |-> None,
          photo_base64 |-> None]
    ELSE LET binary == B64Decode(photo[1].payload) IN
         IF binary = None
         THEN [raised |-> FALSE, object |-> None,
               ingest_error |-> Some("INVALID_BASE64"),
               photo_base64 |-> None]
         ELSE IF ~put_ok
         THEN [raised |-> TRUE, object |-> None, ingest_error |-> None,
               photo_base64 |-> None]
         ELSE [raised |-> FALSE,
               object |-> Some([request_id |-> request_id,
                                body |-> binary[1]]),
               ingest_error |-> None, photo_base64 |-> None]

\* mutant: a request_id of the client is kept
SetRequestIdDefault(body, request_id) ==
    IF body.request_id # None THEN body
    ELSE [body EXCEPT !.request_id = Some(request_id)]

\* body["request_id"] = request_id
SetRequestId(body, request_id) ==
    [body EXCEPT !.request_id = Some(request_id)]

\* the body ingest hands to the orchestrator
Submission(body, location, notes, photo, snapshot) ==
    [request_id |-> body.request_id[1],
     location |-> location,
     notes |-> notes,
     ingest_error |-> photo.ingest_error,
     photo_base64 |-> photo.photo_base64,
     assets |-> IF photo.object = None THEN None
                ELSE Some(Dict([raw |-> JsonMap({"bucket", "key"})])),
     raw_object_key |-> IF photo.object = None THEN None
                        ELSE Some(photo.object[1].request_id),
     weather_snapshot |-> snapshot]

\* ingest.lambda_handler, with RAW_BUCKET, WEATHER_API_URL and
\* STATE_MACHINE_ARN set.  put_ok, answer and start_ok are what the bucket,
\* the weather provider and the orchestrator answer.
Ingest(body, put_ok, answer, start_ok) ==
    /\ FreshRequestIds # {}
    /\ ingestEvent' = Some(body)
    /\ LET request_id == CHOOSE r \in FreshRequestIds :
                            \A o \in FreshRequestIds : r <= o
           sanitized == SanitizeLocation(body.location)
           photo == HandlePhoto(body, request_id, put_ok)
           weather == FetchWeatherSnapshot(answer)
       IN  IF body.kind = "invalid_json"
           THEN /\ ingestResponse' =
                     Some(IngestResponse(400, "invalid_json", None))
                /\ UNCHANGED <<bucket, executions>>
           ELSE IF body.kind # "dict"
           THEN /\ ingestResponse' =
                     Some(IngestResponse(400, "invalid_payload", None))
                /\ UNCHANGED <<bucket, executions>>
           ELSE IF sanitized.raised
           THEN /\ ingestResponse' = Some(IngestRaised)
                /\ UNCHANGED <<bucket, executions>>
           ELSE IF photo.raised
           THEN /\ ingestResponse' =
                     Some(IngestResponse(500, "persist_failed", None))
                /\ UNCHANGED <<bucket, executions>>
           ELSE /\ bucket' = IF photo.object = None THEN bucket
                             ELSE bucket \cup {photo.object[1]}
                /\ IF weather.raised
                   THEN /\ ingestResponse' = Some(IngestRaised)
                        /\ UNCHANGED executions
                   ELSE IF ~start_ok
                   THEN /\ ingestResponse' =
                             Some(IngestResponse(502, "pipeline_unavailable",
                                                 None))
                        /\ UNCHANGED executions
                   ELSE /\ executions' = executions \cup
                             {Submission(SetRequestId(body, request_id),
                                         sanitized.location, body.notes,
                                         photo, weather.snapshot)}
                        /\ ingestResponse' =
                             Some(IngestResponse(202, "", Some(request_id)))
    /\ UNCHANGED <<clock, table, persistOut, pc, report_id, audit_entry,
                   item_key, response, historyEvent, historyResponse>>
    /\ UNCHANGED sideVars
    /\ UNCHANGED <<notifyVars, evidence, redactionEvent, redactionOut,
                   inferenceOut, officer_cache, officerIn, officerOut,
                   lookups>>

\* the request_id of an execution as persist reads it: the ids ingest
\* generates and the id of the client are different strings
AsText(request_id) ==
    IF request_id = 1 THEN <<"r1">>
    ELSE IF request_id = 2 THEN <<"r2">>
    ELSE <<"u1">>

\* the persist state of the state machine, run on the input of an
\* execution ingest has started: the stages before it leave request_id,
\* notes, assets and location as they are
PersistSubmission(e) ==
    /\ e \in executions
    /\ e.request_id \in {ClientRequestId, 1, 2}
    /\ Persist([BareEvent EXCEPT
                    !.request_id = Some(AsText(e.request_id)),
                    !.assets = e.assets],
               TRUE, TRUE)

\* --------------------------------------------------------- image codec
\* Bytes by their length and what they are: the bytes of the request, or
\* what img.save wrote as JPEG or as PNG
PhotoBytes(size, encoding) == [size |-> size, encoding |-> encoding]

ContentTypes == {"application/octet-stream", "image/jpeg", "image/png"}

\* what Pillow makes of the bytes: it is not installed, it raises while it
\* opens or saves the image, the image has another format, or the image is
\* a JPEG or a PNG that is saved again with the given length
CodecOutcome(kind, size) == [kind |-> kind, size |-> size]

CodecOutcomes(n) ==
    {CodecOutcome(kind, 0) : kind \in {"no_pillow", "raises", "GIF"}}
        \cup {CodecOutcome(kind, size) :
                kind \in {"JPEG", "PNG"},
                size \in {c \in (n - 3)..(n + 1) : c >= 1}}

\* len(compressed) >= len(binary) * MIN_COMPRESSION_RATIO.  The ratio is the
\* double nearest to 0.95, which lies below 0.95, and the product is rounded
\* to the nearest double: it never exceeds an integer that 0.95 * n does not
\* exceed, so the comparison with an integer length is that of 100 c with
\* 95 n.
NotSmallEnough(compressed, binary) ==
    100 * compressed >= MinCompressionRatioPercent * binary

\* mutant: the saved image is taken when it is not above the threshold
CompressPhotoAtThreshold(binary, content_type, outcome) ==
    IF outcome.kind = "no_pillow" \/ binary.size = 0
    THEN <<binary, content_type>>
    ELSE IF outcome.kind \in {"raises", "GIF"}
    THEN <<binary, content_type>>
    ELSE IF 100 * outcome.size > MinCompressionRatioPercent * binary.size
    THEN <<binary, content_type>>
    ELSE <<PhotoBytes(outcome.size, outcome.kind),
           IF outcome.kind = "JPEG" THEN "image/jpeg" ELSE "image/png">>

\* _compress_photo
CompressPhoto(binary, content_type, outcome) ==
    IF outcome.kind = "no_pillow" \/ binary.size = 0
    THEN <<binary, content_type>>
    ELSE IF outcome.kind \in {"raises", "GIF"}
    THEN <<binary, content_type>>
    ELSE IF NotSmallEnough(outcome.size, binary.size)
    THEN <<binary, content_type>>
    ELSE <<PhotoBytes(outcome.size, outcome.kind),
           IF outcome.kind = "JPEG" THEN "image/jpeg" ELSE "image/png">>

\* a call of _compress_photo, as _handle_photo makes it with the decoded
\* payload and the content type of the body
Compress(size, content_type, outcome) ==
    /\ codecIn' = [binary |-> PhotoBytes(size, "original"),
                   content_type |-> content_type, outcome |-> outcome]
    /\ codecOut' =
         Some(CompressPhoto(PhotoBytes(size, "original"), content_type,
                            outcome))
    /\ UNCHANGED <<clock, table, persistOut, pc, report_id, audit_entry,
                   item_key, response, historyEvent, historyResponse>>
    /\ UNCHANGED <<notifyVars, stageVars, pager, auditObjects, streamed>>

\* ----------------------------------------------------------- redaction
\* image bytes: the original, the image saved again as JPEG, and the image
\* saved as JPEG after regions of it were blurred
Original(binary) == <<binary>>
Reencoded(binary) == <<"jpeg", binary>>
Blurred(binary) == <<"jpeg", "blurred", binary>>

\* the keys of the raw and the evidence bucket: timestamp/request_id/filename,
\* the timestamp being the clock reading of the run and the filename that of
\* the event
ObjectKeys == {"raw", "evidence"} \X (0..MaxClock) \X RequestIds

\* what Image.open and rekognition.detect_faces make of the image
DetectorAnswers ==
    {"undecodable", "detector_error", "no_faces", "faces_without_area",
     "faces"}

\* mutant: an image without faces is saved again as JPEG
BlurFacesAlwaysSave(binary, answer) ==
    CASE answer \in {"undecodable", "detector_error"} ->
            [raised |-> TRUE, bytes |-> Original(binary)]
      [] answer \in {"no_faces", "faces_without_area"} ->
            [raised |-> FALSE, bytes |-> Reencoded(binary)]
      [] OTHER -> [raised |-> FALSE, bytes |-> Blurred(binary)]

\* _blur_faces: raises when the image does not open or the detector fails,
\* returns its argument when there is no face, else the edited copy saved as
\* JPEG (faces whose box has no area are skipped)
BlurFaces(binary, answer) ==
    CASE answer \in {"undecodable", "detector_error"} ->
            [raised |-> TRUE, bytes |-> Original(binary)]
      [] answer = "no_faces" ->
            [raised |-> FALSE, bytes |-> Original(binary)]
      [] answer = "faces_without_area" ->
            [raised |-> FALSE, bytes |-> Reencoded(binary)]
      [] OTHER -> [raised |-> FALSE, bytes |-> Blurred(binary)]

\* the events handed to redaction: the record of one request, with or
\* without a photo
RedactionEvents ==
    {[request_id |-> 1, photo_base64 |-> p] :
        p \in {None, Some(Photo(FALSE, "")), Some(Photo(FALSE, "aGk")),
               Some(Photo(TRUE, "aGk=")), Some(Photo(FALSE, "aGk="))}}

\* what redaction returns: the event with the keys it has set, or the
\* exception of a put_object
RedactionReturn(event, ingest_error, raw, evidence_asset, keys) ==
    [raised |-> FALSE, request_id |-> event.request_id,
     ingest_error |-> ingest_error,
     assets |-> [raw |-> raw, evidence |-> evidence_asset],
     keys |-> keys]

RedactionRaised(event) ==
    [raised |-> TRUE, request_id |-> event.request_id, ingest_error |-> None,
     assets |-> [raw |-> FALSE, evidence |-> FALSE], keys |-> {}]

\* redaction.lambda_handler with EVIDENCE_BUCKET set.  answer is what the
\* image library and the face detector do, raw_ok and evidence_ok what the
\* two put_object calls answer.
Redaction(event, answer, raw_ok, evidence_ok) ==
    /\ redactionEvent' = Some(event)
    /\ LET photo == event.photo_base64 IN
       IF photo = None \/ EmptyPhoto(photo[1])
       THEN /\ redactionOut' =
                 Some(RedactionReturn(event, None, FALSE, FALSE, {}))
            /\ UNCHANGED evidence
       ELSE LET binary == B64Decode(photo[1].payload) IN
            IF binary = None
            THEN /\ redactionOut' =
                      Some(RedactionReturn(event, Some("INVALID_BASE64"),
                                           FALSE, FALSE, {}))
                 /\ UNCHANGED evidence
            ELSE IF ~raw_ok
            THEN /\ redactionOut' = Some(RedactionRaised(event))
                 /\ UNCHANGED evidence
            ELSE LET raw == <<"raw", clock, event.request_id>>
                     redactedKey == <<"evidence", clock, event.request_id>>
                     blur == BlurFaces(binary[1], answer)
                     redacted == IF blur.raised THEN Original(binary[1])
                                 ELSE blur.bytes
                 IN  IF ~evidence_ok
                     THEN /\ evidence' =
                               [evidence EXCEPT
                                    ![raw] = Some(Original(binary[1]))]
                          /\ redactionOut' = Some(RedactionRaised(event))
                     ELSE /\ evidence' =
                               [evidence EXCEPT
                                    ![raw] = Some(Original(binary[1])),
                                    ![redactedKey] = Some(redacted)]
                          /\ redactionOut' =
                               Some(RedactionReturn(event, None, TRUE, TRUE,
                                                    {raw, redactedKey}))
    /\ UNCHANGED <<clock, table, persistOut, pc, report_id, audit_entry,
                   item_key, response, historyEvent, historyResponse>>
    /\ UNCHANGED sideVars
    /\ UNCHANGED <<notifyVars, bucket, executions, ingestEvent,
                   ingestResponse, inferenceOut, officer_cache, officerIn,
                   officerOut, lookups>>

\* the redaction state of the state machine, run on the input of an
\* execution ingest has started
RedactSubmission(e, answer, raw_ok, evidence_ok) ==
    /\ e \in executions
    /\ Redaction([request_id |-> e.request_id,
                  photo_base64 |-> e.photo_base64],
                 answer, raw_ok, evidence_ok)

\* ----------------------------------------------------------- inference
\* the events handed to inference: a request with or without a raw object
InferenceEvents ==
    {[request_id |-> r, raw_object_key |-> k] :
        r \in RequestIds, k \in {None, Some("key")}}

\* what the model endpoint answers: no connection, an error status, a body
\* that is not JSON, an empty body, a JSON array, or a result object
EndpointAnswers ==
    {"unreachable", "error_status", "not_json", "empty_body", "json_array",
     "result"}

\* the event inference returns, or the exception it raises
InferenceReturn(event, detections) ==
    [raised |-> FALSE, request_id |-> event.request_id,
     inference |-> TRUE, detections |-> detections]

InferenceRaised(event) ==
    [raised |-> TRUE, request_id |-> event.request_id,
     inference |-> FALSE, detections |-> None]

\* inference.lambda_handler: raises without a raw object, when the download
\* fails, when invoke_endpoint or json.loads raises (logged and raised
\* again), and on result.get when the result is no dict
Inference(event, download_ok, answer) ==
    /\ inferenceOut' =
        IF event.raw_object_key = None \/ ~download_ok
        THEN Some(InferenceRaised(event))
        ELSE CASE answer \in {"unreachable", "error_status", "not_json",
                              "json_array"} ->
                    Some(InferenceRaised(event))
               [] answer = "empty_body" ->
                    Some(InferenceReturn(event, None))
               [] OTHER ->
                    Some(InferenceReturn(event,
                        Some(List(<<Detection(Some(<<"vape">>), Some(0))>>))))
    /\ UNCHANGED <<clock, table, persistOut, pc, report_id, audit_entry,
                   item_key, response, historyEvent, historyResponse>>
    /\ UNCHANGED sideVars
    /\ UNCHANGED <<notifyVars, bucket, executions, ingestEvent,
                   ingestResponse, evidence, redactionEvent, redactionOut,
                   officer_cache, officerIn, officerOut, lookups>>

\* ------------------------------------------------ officer directory
\* the officers _enrich_officer_details is called with: each field is
\* missing or a non-empty string
Officers ==
    [name : {None, Some("Bob")},
     email : {None, Some("bob@spf")},
     sub : {None, Some("s1")},
     username : {None, Some("ann"), Some("s1")}]

\* the names the cache is keyed by
Usernames == {"ann", "s1"}

\* what the cache holds for a name: the fields once merged in, or nothing
NoUpdates == [name |-> None, email |-> None, username |-> None]

\* what admin_get_user answers: UserNotFoundException, another exception,
\* or the user with its Username and its name and email attributes
DirectoryUser(name, email) ==
    [kind |-> "user", Username |-> Some("ann"), name |-> name,
     email |-> email]

DirectoryAnswers ==
    {[DirectoryUser(None, None) EXCEPT !.kind = "not_found"],
     [DirectoryUser(None, None) EXCEPT !.kind = "error"],
     DirectoryUser(None, None),
     DirectoryUser(Some("Ann Lee"), Some("ann@spf"))}

\* a or b, of two optional strings
Or(a, b) == IF a # None THEN a ELSE b

\* dict.update with the entries of updates that are not empty
Update(officer, updates) ==
    [officer EXCEPT !.name = Or(updates.name, @),
                    !.email = Or(updates.email, @),
                    !.username = Or(updates.username, @)]

\* the last lines of _enrich_officer_details: a username equal to the sub
\* is popped
PopUsername(officer) ==
    IF officer.username = officer.sub
    THEN [officer EXCEPT !.username = None]
    ELSE officer

\* _enrich_officer_details with a user pool configured
EnrichOfficerDetails(officer, answer) ==
    /\ officerIn' = Some(officer)
    /\ LET username == Or(officer.username, officer.sub)
           updates ==
               [email |-> IF officer.email = None THEN answer.email ELSE None,
                name |-> IF officer.name = None
                         THEN Or(answer.name, answer.Username)
                         ELSE None,
                username |-> IF officer.username = None
                             THEN answer.Username ELSE None]
       IN  IF \/ officer.name # None /\ officer.email # None
              \/ username = None
           THEN /\ officerOut' = Some(officer)
                /\ UNCHANGED <<officer_cache, lookups>>
           ELSE IF officer_cache[username[1]] # NoUpdates
           THEN /\ officerOut' =
                     Some(Update(officer, officer_cache[username[1]]))
                /\ UNCHANGED <<officer_cache, lookups>>
           ELSE /\ lookups[username[1]] < MaxLookups
                /\ lookups' = [lookups EXCEPT ![username[1]] = @ + 1]
                /\ IF answer.kind # "user"
                   THEN /\ officerOut' = Some(officer)
                        /\ UNCHANGED officer_cache
                   ELSE /\ officer_cache' =
                             [officer_cache EXCEPT ![username[1]] = updates]
                        /\ officerOut' =
                             Some(PopUsername(Update(officer, updates)))
    /\ UNCHANGED <<clock, table, persistOut, pc, report_id, audit_entry,
                   item_key, response, historyEvent, historyResponse>>
    /\ UNCHANGED sideVars
    /\ UNCHANGED <<notifyVars, bucket, executions, ingestEvent,
                   ingestResponse, evidence, redactionEvent, redactionOut,
                   inferenceOut>>

\* ----------------------------------------------------------- audit sink
\* a record of the table's stream: its NewImage, or none (a REMOVE record)
StreamRecord(image) == [NewImage |-> image]

StreamRecords == {StreamRecord(None), StreamRecord(Some(1)),
                  StreamRecord(Some(2))}

\* the events handed to audit_sink: up to two records
SinkEvents ==
    {<<>>} \cup {<<r>> : r \in StreamRecords}
           \cup {<<r, q>> : r, q \in StreamRecords}

\* json.dumps of the record's NewImage ({} when it has none)
Line(record) == record.NewImage

\* audit_sink.lambda_handler with AUDIT_BUCKET set.  The key is the minute
\* of the invocation, here the clock reading; put_object replaces what the
\* key held.
AuditSink(records) ==
    /\ streamed' = streamed \cup {records[i] : i \in DOMAIN records}
    /\ LET lines == [i \in DOMAIN records |-> Line(records[i])] IN
       auditObjects' = IF lines # <<>>
                       THEN [auditObjects EXCEPT ![clock] = Some(lines)]
                       ELSE auditObjects
    /\ UNCHANGED <<clock, table, persistOut, pc, report_id, audit_entry,
                   item_key, response, historyEvent, historyResponse>>
    /\ UNCHANGED <<notifyVars, stageVars, codecIn, codecOut, pager>>

\* nothing has been published, stored or returned yet
InitStages ==
    /\ alerts = [rid \in ReportIds \cup UuidPool |-> 0]
    /\ persistResult = None
    /\ bucket = {}
    /\ executions = {}
    /\ ingestEvent = None
    /\ ingestResponse = None
    /\ evidence = [k \in ObjectKeys |-> None]
    /\ redactionEvent = None
    /\ redactionOut = None
    /\ inferenceOut = None
    /\ officer_cache = [u \in Usernames |-> NoUpdates]
    /\ officerIn = None
    /\ officerOut = None
    /\ lookups = [u \in Usernames |-> 0]
    /\ codecIn = None
    /\ codecOut = None
    /\ pager = None
    /\ auditObjects = [minute \in Times |-> None]
    /\ streamed = {}

\* ------------------------------------------------------------ environment
\* A row removed from the table by something other than these handlers (the
\* case the update's ConditionExpression guards against).
DeleteRow(k) ==
    /\ table[k] # None
    /\ table' = [table EXCEPT ![k] = None]
    /\ UNCHANGED <<clock, persistOut, pc, report_id, audit_entry, item_key,
                   response, historyEvent, historyResponse>>
    /\ UNCHANGED <<notifyVars, stageVars, sideVars>>

\* the wall clock advances between two readings, or does not
Tick ==
    /\ clock < MaxClock
    /\ clock' = clock + 1
    /\ UNCHANGED <<table, persistOut, pc, report_id, audit_entry, item_key,
                   response, historyEvent, historyResponse>>
    /\ UNCHANGED <<notifyVars, stageVars, sideVars>>

Init ==
    /\ clock = 0
    /\ table = [k \in Keys |-> None]
    /\ persistOut = [k \in Keys |-> 0]
    /\ pc = [c \in Calls |-> "idle"]
    /\ report_id = [c \in Calls |-> None]
    /\ audit_entry = [c \in Calls |-> None]
    /\ item_key = [c \in Calls |-> None]
    /\ response = [c \in Calls |-> None]
    /\ historyEvent = None
    /\ historyResponse = None
    /\ InitStages

NextAudit ==
    \/ Tick
    \/ \E c \in Calls, event \in AuditEvents : AuditBegin(c, event)
    \/ \E c \in Calls : AuditQuery(c)
    \/ \E c \in Calls : AuditUpdate(c)

Next ==
    \/ NextAudit
    \/ \E event \in PersistEvents : Persist(event, TRUE, TRUE)

\* persist and submit_audit calls against an empty table, with the store
\* and the topic answering
Spec == Init /\ [][Next]_vars

\* Tables persist has written: report r1 persisted at some of the clock
\* readings, by an event that names it.
R1Events ==
    {e \in PersistEvents : CleanString(e.request_id, None) = Some(<<"r1">>)}

PersistedTables ==
    {[k \in Keys |->
        IF k[1] = <<"r1">> /\ written[k[2]] # None
        THEN Some(PersistItem(written[k[2]][1], k[1], k[2]))
        ELSE None] :
     written \in [Times -> {None} \cup {Some(e) : e \in R1Events}]}

InitAudit ==
    /\ table \in PersistedTables
    /\ clock \in Times
    /\ \A k \in Keys : table[k] # None => k[2] <= clock
    /\ persistOut = [k \in Keys |-> IF table[k] # None THEN 1 ELSE 0]
    /\ pc = [c \in Calls |-> "idle"]
    /\ report_id = [c \in Calls |-> None]
    /\ audit_entry = [c \in Calls |-> None]
    /\ item_key = [c \in Calls |-> None]
    /\ response = [c \in Calls |-> None]
    /\ historyEvent = None
    /\ historyResponse = None
    /\ InitStages

\* submit_audit calls alone, against a table of persisted reports
SpecAudit == InitAudit /\ [][NextAudit]_vars

NextDelete ==
    \/ NextAudit
    \/ \E k \in Keys : DeleteRow(k)

\* submit_audit calls while rows are removed from outside
SpecDelete == InitAudit /\ [][NextDelete]_vars

\* The histories submit_audit builds: entry i was appended at reading i.
HistoryEntry(i) ==
    AuditEntry([status |-> Some(IF i % 2 = 0 THEN REJECTED ELSE APPROVED),
                notes |-> None], i, Officer(Ann))

Histories == {[i \in 1..n |-> HistoryEntry(i)] : n \in 1..MaxHist}

Audited(item, h) ==
    [item EXCEPT
        !.audit = Some(h[Len(h)]),
        !.audit_updated_at = Some(h[Len(h)].timestamp),
        !.audit_history = Some(h)]

InitHistory ==
    /\ clock = 0
    /\ \E e \in R1Events :
        LET fresh == PersistItem(e, <<"r1">>, 0) IN
        \E item \in {fresh} \cup {Audited(fresh, h) : h \in Histories} :
            table = [k \in Keys |-> IF k = <<(<<"r1">>), 0>> THEN Some(item)
                                    ELSE None]
    /\ persistOut = [k \in Keys |-> IF table[k] # None THEN 1 ELSE 0]
    /\ pc = [c \in Calls |-> "idle"]
    /\ report_id = [c \in Calls |-> None]
    /\ audit_entry = [c \in Calls |-> None]
    /\ item_key = [c \in Calls |-> None]
    /\ response = [c \in Calls |-> None]
    /\ historyEvent = None
    /\ historyResponse = None
    /\ InitStages

NextHistory == \E event \in HistoryEvents : GetReportHistory(event)

\* get_history reads of an audited report
SpecHistory == InitHistory /\ [][NextHistory]_vars

NextPager == \E limit \in RawParams : ReadPage(limit)

\* a client that pages through the history of an audited report, with no
\* audit in between; the client goes on until it is done
SpecPager == InitHistory /\ [][NextPager]_vars /\ WF_vars(NextPager)

\* Events that differ in their assets, location, weather and detections
ItemEvents ==
    LET r1 == [BareEvent EXCEPT !.request_id = Some(<<"r1">>)] IN
    {r1,
     [r1 EXCEPT !.assets = Some(Dict([raw |-> JsonMap({"bucket", "key"})]))],
     [r1 EXCEPT !.assets =
        Some(Dict([raw |-> JsonMap({"bucket", "key"}),
                   evidence_bucket |-> JsonString]))],
     [r1 EXCEPT !.assets = Some(Dict([raw |-> JsonNull]))],
     [r1 EXCEPT !.assets = Some(Dict([evidence |-> JsonMap({})]))],
     [r1 EXCEPT !.assets = Some(Dict(<<>>))],
     [r1 EXCEPT !.assets = Some(NotADict)],
     [r1 EXCEPT !.location =
        Some(Dict([latitude |-> Some(1), longitude |-> None]))],
     [r1 EXCEPT !.location =
        Some(Dict([latitude |-> Some(1), longitude |-> Some(103)]))],
     [r1 EXCEPT !.location = Some(NotADict)],
     [r1 EXCEPT !.weather_snapshot =
        Some(Dict([source |-> Some(<<" ">>), api_status |-> None]))],
     [r1 EXCEPT !.weather_snapshot =
        Some(Dict([source |-> Some(<<"nea">>), api_status |-> None]))],
     [r1 EXCEPT !.weather_snapshot =
        Some(Dict([source |-> None, api_status |-> Some(<<"healthy">>)]))],
     [r1 EXCEPT !.detections = Some(List(<<>>))],
     [r1 EXCEPT !.detections = Some(List(<<Detection(None, None)>>))],
     [r1 EXCEPT !.detections = Some(List(<<Detection(Some(<<"vape">>), None)>>))]}

NextItem ==
    \/ Tick
    \/ \E event \in ItemEvents : Persist(event, TRUE, TRUE)

\* persist calls whose events differ in their optional parts
SpecItem == Init /\ [][NextItem]_vars

\* Detection lists: entry i of the list of length n has the class_id
\* 100 n + i and a class_name with white space before it
UsableList(n) ==
    [i \in 1..n |-> Detection(Some(<<" ", "vape">>), Some(100 * n + i))]

\* entries without a usable field
UnusableEntries ==
    {NotADictEntry, Detection(None, None), Detection(Some(<<" ">>), None)}

\* the lengths drawn: the short lists and those around the cap
DetectionLengths == (0..2) \cup ((MaxDetections - 3)..MaxDetections)

DetectionLists ==
    {UsableList(n) : n \in DetectionLengths}
        \cup {[UsableList(MaxDetections) EXCEPT ![p] = e] :
                p \in {1, MaxDetections}, e \in UnusableEntries}
        \cup {<<e>> : e \in UnusableEntries}

\* the list as event["detections"], as the inference stage sets it, and one
\* event that has it under inference.result only
DetectionEvents ==
    LET r1 == [BareEvent EXCEPT !.request_id = Some(<<"r1">>)] IN
    {[r1 EXCEPT !.detections = Some(List(l))] : l \in DetectionLists}
        \cup {[r1 EXCEPT !.inference =
                 Some(Dict([result |->
                    Some(Dict([detections |-> Some(List(UsableList(2)))]))]))]}

NextDetections ==
    \/ Tick
    \/ \E event \in DetectionEvents : Persist(event, TRUE, TRUE)

\* persist calls whose events carry detection lists
SpecDetections == Init /\ [][NextDetections]_vars

\* confidences: inside [0, 1], with more than four decimals, outside
\* [0, 1], ints, and values that are no number
Confidences ==
    {Float(5, 1), Float(123456, 6), Float(99996, 5), Float(15, 1),
     Float(-2, 1), Float(-12346, 5), IntNum(0), IntNum(1), IntNum(2),
     NonFiniteFloat, NotANumber}

\* total_detections values: counts, a negative int, a float, no number
Totals == {IntNum(0), IntNum(3), IntNum(-1), Float(27, 1), NotANumber}

\* what the three places of total_detections hold: nothing or a total
TotalsGiven == {None} \cup {Some(t) : t \in Totals}

\* Events as the inference stage leaves them: detections with a confidence,
\* and total_detections at the root, in the inference block and in its
\* result
InferenceResultEvents ==
    LET r1 == [BareEvent EXCEPT !.request_id = Some(<<"r1">>)]
        two == Some(List(<<Scored(Some(<<"vape">>), Some(Float(5, 1))),
                           Scored(None, Some(NotANumber)),
                           Scored(Some(<<"cigarette">>), None)>>))
    IN  {[r1 EXCEPT !.detections =
            Some(List(<<Scored(Some(<<"vape">>), Some(c))>>))] :
                c \in Confidences}
        \cup {[r1 EXCEPT !.detections = Some(List(<<Scored(None, Some(c))>>))] :
                c \in {Float(5, 1), NotANumber}}
        \cup {[r1 EXCEPT
                 !.detections = two,
                 !.total_detections = root,
                 !.inference =
                    Some(Dict([total_detections |-> block,
                               result |->
                                 Some(Dict([total_detections |-> nested,
                                            detections |-> two]))]))] :
                root \in TotalsGiven, block \in {None, Some(IntNum(3))},
                nested \in {None, Some(IntNum(0)), Some(IntNum(-1))}}
        \cup {[r1 EXCEPT !.total_detections = root,
                         !.inference = Some(NotADict)] :
                root \in {None, Some(IntNum(3))}}

NextInference ==
    \/ Tick
    \/ \E event \in InferenceResultEvents : Persist(event, TRUE, TRUE)

\* persist calls whose events carry what the inference stage found
SpecInference == Init /\ [][NextInference]_vars

NextCodec ==
    \E size \in 0..MaxPhotoSize, content_type \in ContentTypes :
        \E outcome \in CodecOutcomes(size) :
            Compress(size, content_type, outcome)

\* calls of the image codec of ingest
SpecCodec == Init /\ [][NextCodec]_vars

NextSink ==
    \/ Tick
    \/ \E records \in SinkEvents : AuditSink(records)

\* audit_sink invocations at the minutes of the clock
SpecSink == Init /\ [][NextSink]_vars

NextNotify ==
    \/ Tick
    \/ \E event \in PersistEvents \cup ItemEvents,
          put_ok, publish_ok \in BOOLEAN :
        Persist(event, put_ok, publish_ok)

\* persist calls with a store and a topic that may fail
SpecNotify == Init /\ [][NextNotify]_vars

NextIngest ==
    \E body \in IngestBodies, put_ok, start_ok \in BOOLEAN,
       answer \in WeatherAnswers :
        Ingest(body, put_ok, answer, start_ok)

\* ingest requests, with a bucket, a weather provider and an orchestrator
\* that may fail
SpecIngest == Init /\ [][NextIngest]_vars

NextRedaction ==
    \/ \E event \in RedactionEvents, answer \in DetectorAnswers,
          raw_ok, evidence_ok \in BOOLEAN :
        Redaction(event, answer, raw_ok, evidence_ok)
    \/ Tick

\* redaction calls at the seconds of the clock, with a detector and buckets
\* that may fail
SpecRedaction == Init /\ [][NextRedaction]_vars

NextPipeline ==
    \/ NextIngest
    \/ \E e \in executions, answer \in DetectorAnswers,
          raw_ok, evidence_ok \in BOOLEAN :
        RedactSubmission(e, answer, raw_ok, evidence_ok)

\* submissions that go through ingest and then through redaction
SpecPipeline == Init /\ [][NextPipeline]_vars

NextReport ==
    \/ \E body \in IngestBodies, start_ok \in BOOLEAN :
        Ingest(body, TRUE, "forecasts", start_ok)
    \/ \E e \in executions : PersistSubmission(e)

\* submissions that go through ingest, with a bucket and a weather provider
\* that answer, and are persisted at the end
SpecReport == Init /\ [][NextReport]_vars

NextEnrich ==
    \/ NextIngest
    \/ \E event \in InferenceEvents, download_ok \in BOOLEAN,
          answer \in EndpointAnswers :
        Inference(event, download_ok, answer)

\* the two enrichments: the weather lookup of ingest and the inference stage
SpecEnrich == Init /\ [][NextEnrich]_vars

NextOfficer ==
    \E officer \in Officers, answer \in DirectoryAnswers :
        EnrichOfficerDetails(officer, answer)

\* officer enrichment calls in one portal process
SpecOfficer == Init /\ [][NextOfficer]_vars

\* ------------------------------------------------------------ properties
KeyOf(item) == <<item.report_id, item.submitted_at>>

HistoryOf(t, k) == IfNotExists(t[k][1].audit_history, <<>>)

Succeeded(c) ==
    pc[c] = "return_report" /\ response[c][1].statusCode = 200

NotFound == Some(JsonResponse(404, "report_not_found"))

\* the key of the row a successful call has returned
ReturnedKey(c) ==
    <<response[c][1].report[1].report_id,
      response[c][1].report[1].submitted_at>>

\* the entry a successful call has returned as the row's audit
ReturnedAudit(c) == response[c][1].report[1].audit[1]

\* the calls that have appended to row k
AppendedTo(k) == {c \in Calls : Succeeded(c) /\ ReturnedKey(c) = k}

Occurrences(h, e) == Cardinality({i \in DOMAIN h : h[i] = e})

\* C1: after n successful submit_audit calls on an existing report its
\* audit_history has exactly n entries, and each successful call leaves the
\* earlier entries as they were and puts its own entry last; no other step
\* changes a history.
C1_HistoryInCallOrder ==
    /\ [](\A k \in Keys :
            table[k] # None =>
                Len(HistoryOf(table, k)) = Cardinality(AppendedTo(k)))
    /\ [][\A k \in Keys :
            table[k] # None =>
                /\ table'[k] # None
                /\ \/ HistoryOf(table', k) = HistoryOf(table, k)
                   \/ \E c \in Calls :
                        /\ pc[c] = "update"
                        /\ Succeeded(c)'
                        /\ KeyOf(item_key[c][1]) = k
                        /\ HistoryOf(table', k) =
                               Append(HistoryOf(table, k), audit_entry[c][1])]_vars

\* C1 witness: two calls have succeeded on one row, whose history holds
\* their two different entries
C1_Witness ==
    \E k \in Keys :
        /\ table[k] # None
        /\ Cardinality(AppendedTo(k)) = 2
        /\ Len(HistoryOf(table, k)) = 2
        /\ HistoryOf(table, k)[1] # HistoryOf(table, k)[2]

\* C2 (as claimed): the update of a successful submit_audit with status s
\* leaves the report's status equal to s.
C2_StatusFollowsAudit ==
    [][\A c \in Calls :
        (pc[c] = "update" /\ Succeeded(c)') =>
            table'[KeyOf(item_key[c][1])][1].status = audit_entry[c][1].status]_vars

\* C3: a row has an audit exactly when it has a history, the history is
\* then not empty and audit is its last element.
C3_AuditIsNewest ==
    \A k \in Keys :
        table[k] # None =>
            LET item == table[k][1] IN
            /\ (item.audit = None) <=> (item.audit_history = None)
            /\ item.audit_history # None =>
                /\ item.audit_history[1] # <<>>
                /\ item.audit =
                       Some(item.audit_history[1][Len(item.audit_history[1])])

\* C3 witness: a row audited twice, by different entries
C3_Witness ==
    \E k \in Keys :
        /\ table[k] # None
        /\ Len(HistoryOf(table, k)) = 2
        /\ HistoryOf(table, k)[1] # HistoryOf(table, k)[2]
        /\ table[k][1].audit = Some(HistoryOf(table, k)[2])

\* C4: no call whose lookup found the row fails at the update, and the
\* history of a row holds each entry as many times as calls have appended
\* it: no append of two overlapping calls is lost.
C4_ConcurrentAuditsBothAppend ==
    /\ \A c \in Calls : pc[c] # "return_condition_failed"
    /\ \A k \in Keys :
        table[k] # None =>
            /\ \A c \in AppendedTo(k) :
                Occurrences(HistoryOf(table, k), ReturnedAudit(c)) =
                    Cardinality({d \in AppendedTo(k) :
                                    ReturnedAudit(d) = ReturnedAudit(c)})
            /\ Len(HistoryOf(table, k)) = Cardinality(AppendedTo(k))

\* C4 witness: two calls have succeeded on one row and the entry stamped
\* later stands first in the history: the call stamped earlier was still
\* running when the other one began, looked up and updated
C4_Witness ==
    \E c, d \in Calls, k \in Keys :
        /\ c # d
        /\ AppendedTo(k) = {c, d}
        /\ table[k] # None
        /\ HistoryOf(table, k) = <<ReturnedAudit(d), ReturnedAudit(c)>>
        /\ ReturnedAudit(c).timestamp < ReturnedAudit(d).timestamp

\* C5 (as claimed): every report persist has written has status
\* PENDING_REVIEW.
C5_PersistedStatusPending ==
    \A k \in Keys : table[k] # None => table[k][1].status = PENDING_REVIEW

\* C6 (as claimed): no two persist calls return the same key, and the table
\* holds as many rows of a report_id as persist calls were made for it.
C6_PersistKeysDistinct ==
    \A k \in Keys :
        /\ persistOut[k] <= 1
        /\ Cardinality(RowsOf(table, k[1])) =
               Sum(persistOut, {o \in Keys : o[1] = k[1]})

\* C7 (as claimed): a row once written stays, its non-audit fields never
\* change and its audit_history never gets shorter.
C7_RowsOnlyGainAudits ==
    [][\A k \in Keys :
        table[k] # None =>
            /\ table'[k] # None
            /\ table'[k][1].status = table[k][1].status
            /\ table'[k][1].notes = table[k][1].notes
            /\ Len(HistoryOf(table', k)) >= Len(HistoryOf(table, k))]_vars

\* C8: the lookup of a call whose report_id has no row ends the call with
\* 404 report_not_found and changes nothing in the table.
C8_MissingReportNotFound ==
    [][\A c \in Calls :
        (/\ pc[c] = "query"
         /\ RowsOf(table, report_id[c][1]) = {}
         /\ pc'[c] # "query") =>
            /\ pc'[c] = "return_not_found"
            /\ response'[c] = NotFound
            /\ table' = table]_vars

\* C8 witness: the lookup of a call found no row and the call was answered
\* 404, while the table holds rows of another report
C8_Witness ==
    \E c \in Calls :
        /\ pc[c] = "return_not_found"
        /\ response[c] = NotFound
        /\ \E k \in Keys : table[k] # None

\* C9: when the row found by the lookup is gone at the update, the call
\* ends with 404 report_not_found and the row is not created again.
C9_DeletedReportNotFound ==
    [][\A c \in Calls :
        (/\ pc[c] = "update"
         /\ table[KeyOf(item_key[c][1])] = None
         /\ pc'[c] # "update") =>
            /\ pc'[c] = "return_condition_failed"
            /\ response'[c] = NotFound
            /\ table'[KeyOf(item_key[c][1])] = None]_vars

\* C9 witness: the update of a call failed its condition, the call was
\* answered 404, and a row that was written is absent
C9_Witness ==
    \E c \in Calls :
        /\ pc[c] = "return_condition_failed"
        /\ response[c] = NotFound
        /\ \E k \in Keys : persistOut[k] > 0 /\ table[k] = None

\* C10: a read with limit L in 1..100 and offset O >= 0 of a history h of
\* length T returns the entries at positions O .. min(O+L, T)-1 of h
\* reversed, with next_cursor O+L when O+L < T and none otherwise (an empty
\* page and no cursor when O >= T).
C10_HistoryPage ==
    \A L \in LimitMinimum..LimitMaximum, O \in 0..(MaxRaw + 1) :
        (/\ historyResponse # None
         /\ historyResponse[1].statusCode = 200
         /\ historyEvent[1].limit = Some(Decimal(L))
         /\ historyEvent[1].cursor = Some(Decimal(O))) =>
            LET h == HistoryOf(table, <<historyEvent[1].report_id[1],
                                        historyEvent[1].submitted_at[1]>>)
                T == Len(h)
                n == IF O >= T THEN 0 ELSE Min(O + L, T) - O
            IN  /\ historyResponse[1].items = [i \in 1..n |-> h[T - O - i + 1]]
                /\ historyResponse[1].next_cursor =
                       IF O + L < T THEN Some(O + L) ELSE None

\* C10 witness: limit 2 at offset 0 of a history of three returns entries 3
\* and 2 and the cursor 2
C10_Witness ==
    /\ historyResponse # None
    /\ historyEvent[1].limit = Some(Decimal(2))
    /\ historyEvent[1].cursor = Some(Decimal(0))
    /\ historyResponse[1].items = <<HistoryEntry(3), HistoryEntry(2)>>
    /\ historyResponse[1].next_cursor = Some(2)

\* the requests that reach the payload check: a report_id and a JSON body
ReachesPayloadCheck(event) ==
    event.report_id # None /\ event.body.kind # "invalid_json"

AcceptableStatus(body) ==
    body.status # None /\ Upper(body.status[1]) \in allowed_statuses

\* what C11 asks of the first step of a call made with this event
StatusChecked(c, event) ==
    IF AcceptableStatus(event.body)
    THEN /\ pc'[c] = "query"
         /\ audit_entry'[c][1].status = Upper(event.body.status[1])
    ELSE /\ pc'[c] = "return_invalid"
         /\ response'[c] = Some(JsonResponse(400, "invalid_status"))
         /\ table' = table

\* every audit entry in the table has one of the three upper-case statuses
RecordedUpperCased ==
    \A k \in Keys :
        table[k] # None =>
            \A i \in DOMAIN HistoryOf(table, k) :
                HistoryOf(table, k)[i].status \in allowed_statuses

\* C11 (as claimed): a request with a report_id and a JSON body is accepted
\* exactly when its status upper-cased is APPROVED, REJECTED or NEEDS_REVIEW;
\* any other or missing status is answered 400 invalid_status.
C11_StatusAcceptedOrInvalid ==
    [][\A c \in Calls, event \in AuditEvents :
        (ReachesPayloadCheck(event) /\ AuditBegin(c, event)) =>
            StatusChecked(c, event)]_vars

\* C11 (amended): a request with a report_id whose body is a JSON object is
\* accepted exactly when its status upper-cased is APPROVED, REJECTED or
\* NEEDS_REVIEW, and the entry recorded has the status upper-cased; with any
\* other or no status it is answered 400 invalid_status and its call neither
\* looks up nor writes the table.
C11_ObjectStatusAcceptedOrInvalid ==
    /\ []RecordedUpperCased
    /\ [][\A c \in Calls, event \in AuditEvents :
            (/\ ReachesPayloadCheck(event)
             /\ event.body.kind = "dict"
             /\ AuditBegin(c, event)) =>
                StatusChecked(c, event)]_vars

\* C11 witness: the status sent as "approved" is recorded as APPROVED,
\* and another call was answered 400 invalid_status
C11_Witness ==
    /\ \E k \in Keys :
        /\ table[k] # None
        /\ table[k][1].audit # None
        /\ table[k][1].audit[1].status = APPROVED
        /\ table[k][1].audit[1].notes = Some(<<"late">>)
    /\ \E c \in Calls :
        /\ pc[c] = "return_invalid"
        /\ response[c] = Some(JsonResponse(400, "invalid_status"))

\* an item without a null, an empty map or an empty list below its top level
NoEmptyValue(item) ==
    /\ item.assets # None =>
        /\ DOMAIN item.assets[1] # {}
        /\ \A name \in DOMAIN item.assets[1] :
            LET value == item.assets[1][name] IN
            /\ value.kind # "null"
            /\ value.kind = "map" => value.keys # {}
    /\ item.detections # None =>
        /\ item.detections[1] # <<>>
        /\ \A i \in DOMAIN item.detections[1] : Usable(item.detections[1][i])
    /\ item.weather_snapshot # None =>
        \/ item.weather_snapshot[1].source # None
        \/ item.weather_snapshot[1].api_status # None

\* C12 (as claimed): no item persist has written holds an attribute, at top
\* level or nested (under assets too), that is null, an empty map or an
\* empty list.
C12_NoEmptyAttribute ==
    \A k \in Keys : table[k] # None => NoEmptyValue(table[k][1])

\* C13: a persist step publishes only when it has written a report with
\* status PENDING_REVIEW, and then exactly once; a step whose put failed
\* publishes and stores nothing; a failed publish leaves the report stored
\* and the call returns.
C13_OneAlertAfterWrite ==
    [][\A rid \in ReportIds \cup UuidPool :
        (/\ persistOut' # persistOut \/ persistResult' # persistResult
         /\ persistResult'[1].report_id = rid) =>
            LET result == persistResult'[1]
                key == <<rid, clock>>
            IN  /\ \A other \in (ReportIds \cup UuidPool) \ {rid} :
                    alerts'[other] = alerts[other]
                /\ result.outcome = "raised" =>
                    /\ alerts' = alerts
                    /\ table' = table
                /\ result.outcome = "returned" =>
                    /\ table'[key] # None
                    /\ alerts'[rid] - alerts[rid] =
                         IF table'[key][1].status = PENDING_REVIEW
                         THEN 1 ELSE 0
                    /\ result.publish = "failed" =>
                         table'[key][1].status = PENDING_REVIEW]_vars

\* C13 witness: the publish of the last call failed, the call returned and
\* its PENDING_REVIEW report is stored, with one publish made for it
C13_Witness ==
    /\ persistResult # None
    /\ persistResult[1].outcome = "returned"
    /\ persistResult[1].publish = "failed"
    /\ alerts[persistResult[1].report_id] = 1
    /\ \E k \in Keys :
        /\ k[1] = persistResult[1].report_id
        /\ table[k] # None
        /\ table[k][1].status = PENDING_REVIEW

\* a coordinate that is a finite number (read as float() reads it) within
\* the range
ValidCoordinate(value, minimum, maximum) ==
    /\ value # None
    /\ value[1].kind \in {"number", "numeric_string"}
    /\ minimum <= value[1].n /\ value[1].n <= maximum

ValidCoordinates(body) ==
    /\ body.location # None
    /\ body.location[1].kind = "dict"
    /\ ValidCoordinate(body.location[1].entries.latitude, -90, 90)
    /\ ValidCoordinate(body.location[1].entries.longitude, -180, 180)

\* C14: a submission handed to the orchestrator has a location exactly when
\* the request's latitude and longitude are both finite numbers within
\* [-90,90] and [-180,180], and a location it has holds both coordinates.
C14_LocationWholeOrAbsent ==
    /\ [](\A e \in executions :
            e.location # None =>
                /\ e.location[1].latitude # None
                /\ e.location[1].longitude # None)
    /\ [][\A e \in executions' \ executions :
            LET body == ingestEvent'[1] IN
            /\ (e.location # None) <=> ValidCoordinates(body)
            /\ e.location # None =>
                /\ e.location[1].latitude =
                     Some(body.location[1].entries.latitude[1].n)
                /\ e.location[1].longitude =
                     Some(body.location[1].entries.longitude[1].n)]_vars

\* C14 witness: the request with latitude 91 was handed on without a
\* location, and the one with -90 and -180 with both coordinates
C14_Witness ==
    /\ \E e \in executions : e.notes = Some("far") /\ e.location = None
    /\ \E e \in executions :
        e.location = Some([latitude |-> Some(-90), longitude |-> Some(-180)])

\* a photo payload that is there and does not decode
InvalidPhoto(body) ==
    /\ body.kind = "dict"
    /\ body.photo_base64 # None
    /\ ~EmptyPhoto(body.photo_base64[1])
    /\ B64Decode(body.photo_base64[1].payload) = None

\* the weather answers _fetch_weather_snapshot returns from
WeatherHandled == WeatherAnswers \ {"json_array", "item_not_dict"}

C16_IngestAnswers ==
    /\ ingestResponse # None =>
        /\ ~ingestResponse[1].raised
        /\ ingestResponse[1].statusCode \in
             {Some(400), Some(500), Some(502), Some(202)}
        /\ (ingestResponse[1].statusCode = Some(400)) <=>
             (ingestEvent[1].kind # "dict")
        /\ ingestResponse[1].statusCode = Some(202) =>
             ingestResponse[1].request_id # None
    /\ \A e \in executions :
        e.raw_object_key # None =>
            \E o \in bucket : o.request_id = e.raw_object_key[1]

\* the detection list of the event
InputDetections(event) ==
    IF event.detections # None THEN event.detections[1].items
    ELSE event.inference[1].entries.result[1].entries.detections[1].items

\* an entry with a class name or a class id
HasUsableField(entry) ==
    /\ entry.kind = "dict"
    /\ \/ entry.class_id # None
       \/ entry.class_name # None /\ Strip(entry.class_name[1]) # <<>>

\* the stored form of a usable entry: the name without the white space
\* around it
StoredForm(entry) ==
    [class_name |-> IF entry.class_name = None THEN None
                    ELSE Some(Strip(entry.class_name[1])),
     class_id |-> entry.class_id,
     confidence |-> IF entry.confidence = None THEN None
                    ELSE Some(Dec(entry.confidence[1].units,
                                  entry.confidence[1].scale))]

\* the list an item stores (none when the item has no detections key)
StoredDetections(item) ==
    IF item.detections = None THEN <<>> ELSE item.detections[1]

\* C17: persist stores of a list of n entries that all have a usable field
\* the first min(n, 25) entries in input order; of any list it stores at
\* most 25 entries and none without a usable field.
C17_FirstTwentyFiveStored ==
    [][\A event \in DetectionEvents :
        Persist(event, TRUE, TRUE) =>
            LET input == InputDetections(event)
                stored == StoredDetections(table'[<<(<<"r1">>), clock>>][1])
            IN  /\ Len(stored) <= 25
                /\ \A i \in DOMAIN stored :
                    \/ stored[i].class_name # None
                    \/ stored[i].class_id # None
                    \/ stored[i].confidence # None
                /\ (\A i \in DOMAIN input : HasUsableField(input[i])) =>
                    /\ Len(stored) = Min(Len(input), 25)
                    /\ \A i \in DOMAIN stored :
                        stored[i] = StoredForm(input[i])]_vars

\* C17 witness: of the list of 27 usable entries the row holds the entries
\* 1 to 25
C17_Witness ==
    \E k \in Keys :
        /\ table[k] # None
        /\ Len(StoredDetections(table[k][1])) = 25
        /\ StoredDetections(table[k][1])[1].class_id = Some(2701)
        /\ StoredDetections(table[k][1])[25].class_id = Some(2725)

\* the detector answers C18 is about
NoFaceFound == {"undecodable", "detector_error", "no_faces"}

\* C18: when the image does not open, the detector fails or it finds no
\* face, and both objects can be put, redaction returns, the evidence object
\* it has put holds the original bytes, and the record has the evidence
\* asset.
C18_OriginalBytesWithoutFaces ==
    [][\A event \in RedactionEvents, answer \in NoFaceFound :
        (/\ event.photo_base64 # None
         /\ B64Decode(event.photo_base64[1].payload) # None
         /\ ~EmptyPhoto(event.photo_base64[1])
         /\ Redaction(event, answer, TRUE, TRUE)) =>
            /\ ~redactionOut'[1].raised
            /\ redactionOut'[1].assets.evidence
            /\ evidence'[<<"evidence", clock, event.request_id>>] =
                 Some(Original(B64Decode(event.photo_base64[1].payload)[1]))]_vars

\* C18 witness: redaction has returned a record with the evidence asset and
\* the evidence object of that request holds the original bytes
C18_Witness ==
    /\ redactionOut # None
    /\ ~redactionOut[1].raised
    /\ redactionOut[1].assets.evidence
    /\ \E key \in redactionOut[1].keys :
         key[1] = "evidence" /\ evidence[key] = Some(Original("hi"))

\* C19 (as claimed): no call of the inference stage ends in an exception,
\* and no request to ingest whose location can be read does: whatever the
\* model endpoint or the weather provider answers, the stage returns.
C19_EnrichmentNeverFails ==
    /\ inferenceOut # None => ~inferenceOut[1].raised
    /\ (/\ ingestResponse # None
        /\ ~SanitizeLocation(ingestEvent[1].location).raised) =>
            ~ingestResponse[1].raised

\* C20 (as claimed, for the name and the email): the officer an enrichment
\* call returns has the caller's name and the caller's email whenever the
\* caller supplied them.
C20_CallerValuesKept ==
    officerOut # None =>
        /\ officerIn[1].name # None => officerOut[1].name = officerIn[1].name
        /\ officerIn[1].email # None =>
             officerOut[1].email = officerIn[1].email

\* C21 (as claimed): the directory is asked at most once for each username,
\* and a call with an officer that has both a name and an email returns that
\* officer, asks the directory nothing and leaves the cache alone.
C21_OneLookupPerUsername ==
    /\ [](\A u \in Usernames : lookups[u] <= 1)
    /\ [][\A officer \in Officers :
            (/\ officerIn' = Some(officer)
             /\ officer.name # None
             /\ officer.email # None) =>
                /\ officerOut' = Some(officer)
                /\ UNCHANGED <<lookups, officer_cache>>]_vars

\* the objects the two buckets hold
Objects == {key \in ObjectKeys : evidence[key] # None}

\* redaction has returned a record with the raw and the evidence asset
Redacted(out) ==
    out # None /\ ~out[1].raised /\ out[1].assets.raw /\ out[1].assets.evidence

\* C22 (as claimed): when redaction has put both objects for an event and is
\* run again on the same event and puts both objects again, the record it
\* returns has the keys of the first run and the buckets hold no object they
\* did not hold before.
C22_RetryWritesSameKeys ==
    [][(/\ Redacted(redactionOut)
        /\ redactionEvent' = redactionEvent
        /\ Redacted(redactionOut')) =>
            /\ redactionOut'[1].keys = redactionOut[1].keys
            /\ Objects' = Objects]_vars

\* ingest has stored the photo of the submission or rejected it
Consumed(e) ==
    e.raw_object_key # None \/ e.ingest_error = Some("INVALID_BASE64")

\* the raw objects written for a request, by ingest and by redaction
RawWrites(r) ==
    Cardinality({o \in bucket : o.request_id = r})
        + Cardinality({key \in Objects : key[1] = "raw" /\ key[3] = r})

\* C23: no request has more than one raw object, and redaction run on a
\* submission whose photo ingest has stored or rejected puts no object and
\* returns the record with nothing added.
C23_RawWrittenOnce ==
    /\ [](\A r \in RequestIds : RawWrites(r) <= 1)
    /\ [][\A e \in executions :
            LET event == [request_id |-> e.request_id,
                          photo_base64 |-> e.photo_base64]
            IN  (/\ Consumed(e)
                 /\ redactionEvent' = Some(event)) =>
                    /\ evidence' = evidence
                    /\ redactionOut' =
                         Some(RedactionReturn(event, None, FALSE, FALSE,
                                              {}))]_vars

\* C23 witness: redaction has returned the record of a submission whose
\* photo ingest has stored, and the raw object of ingest is the only one
C23_Witness ==
    /\ redactionOut # None
    /\ \E e \in executions :
        /\ e.request_id = redactionOut[1].request_id
        /\ e.raw_object_key # None
        /\ RawWrites(e.request_id) = 1

\* the confidences of the detections an item stores
StoredConfidences(item) ==
    {StoredDetections(item)[i].confidence[1] :
        i \in {j \in DOMAIN StoredDetections(item) :
                  StoredDetections(item)[j].confidence # None}}

\* C24 (as claimed): every confidence persist has stored lies within [0, 1]
\* and has at most four decimals.
C24_ConfidenceClamped ==
    \A k \in Keys : table[k] # None =>
        \A confidence \in StoredConfidences(table[k][1]) :
            /\ 0 <= confidence.units
            /\ confidence.units <= Pow10(confidence.scale)
            /\ confidence.scale <= 4

\* the total the event supplies: at its root, else in its inference block,
\* else in the result of that block
SuppliedTotal(event) ==
    LET inference == EnsureDict(event.inference)
        result_block == EnsureDict(Get(inference, "result"))
    IN  FirstNonNone(event.total_detections,
                     Get(inference, "total_detections"),
                     Get(result_block, "total_detections"))

\* C25 (as claimed): the total_detections persist stores is the first total
\* the event supplies at its root, in its inference block or in the nested
\* result (for a total that is an int), is the number of the detections
\* stored when the event supplies none, and is never negative.
C25_TotalDetectionsPrecedence ==
    [][\A event \in InferenceResultEvents :
        Persist(event, TRUE, TRUE) =>
            LET item == table'[<<(<<"r1">>), clock>>][1]
                supplied == SuppliedTotal(event)
            IN  /\ (supplied # None /\ supplied[1].kind = "int") =>
                    item.total_detections = Some(Dec(supplied[1].units, 0))
                /\ supplied = None =>
                    item.total_detections =
                        Some(Dec(Len(StoredDetections(item)), 0))
                /\ item.total_detections # None =>
                    item.total_detections[1].units >= 0]_vars

\* C26: the codec returns the saved image, with the content type of its
\* format, only when Pillow saved a JPEG or a PNG whose length is strictly
\* below 0.95 times the length of the input; in every other case it returns
\* the input bytes and the input content type; what it returns is never
\* longer than the input.
C26_SmallerOrUnchanged ==
    codecOut # None =>
        LET in == codecIn
            out == codecOut[1]
            saved == /\ in.outcome.kind \in {"JPEG", "PNG"}
                     /\ in.binary.size > 0
                     /\ 100 * in.outcome.size < 95 * in.binary.size
        IN  /\ saved =>
                /\ out[1] = PhotoBytes(in.outcome.size, in.outcome.kind)
                /\ out[2] = IF in.outcome.kind = "JPEG" THEN "image/jpeg"
                            ELSE "image/png"
            /\ ~saved => out = <<in.binary, in.content_type>>
            /\ out[1].size <= in.binary.size

\* C26 witness: a saved image one byte below the threshold has been taken,
\* and the input was a photo of 40 bytes
C26_Witness ==
    /\ codecOut # None
    /\ codecIn.binary.size = 40
    /\ codecOut[1][1] = PhotoBytes(37, "JPEG")

\* C27: a request ingest accepts gets the request_id ingest has generated,
\* whatever request_id its body carried: that id is in the 202 response and
\* in the input of the execution; and every report persisted for a
\* submission has the request_id of its execution as report_id, never the
\* one the client sent.
C27_ReportIdIsRequestId ==
    /\ [](\A k \in Keys : table[k] # None =>
            /\ \E e \in executions : AsText(e.request_id) = k[1]
            /\ k[1] # AsText(ClientRequestId))
    /\ [][\A e \in executions' \ executions :
            /\ e.request_id \in RequestIds
            /\ ingestResponse' =
                 Some(IngestResponse(202, "", Some(e.request_id)))]_vars

\* C27 witness: the request whose body carried a request_id was accepted
\* and answered with the generated id, and its report is persisted under
\* that id
C27_Witness ==
    /\ ingestEvent # None
    /\ ingestEvent[1].request_id = Some(ClientRequestId)
    /\ ingestResponse = Some(IngestResponse(202, "", Some(1)))
    /\ persistResult # None
    /\ persistResult[1].report_id = AsText(1)
    /\ table[<<AsText(1), clock>>] # None

\* C28 (as claimed): the successful submit_audit calls for one report_id
\* have all updated the same row; the update of a call changes the row of
\* its report_id that has the smallest submitted_at and no other row.
C28_AuditsOneRow ==
    /\ [](\A c, d \in Calls :
            (/\ Succeeded(c)
             /\ Succeeded(d)
             /\ ReturnedKey(c)[1] = ReturnedKey(d)[1]) =>
                ReturnedKey(c) = ReturnedKey(d))
    /\ [][\A c \in Calls :
            (pc[c] = "update" /\ Succeeded(c)') =>
                LET key == KeyOf(item_key[c][1]) IN
                /\ \A o \in RowsOf(table, key[1]) : key[2] <= o[2]
                /\ \A o \in Keys \ {key} : table'[o] = table[o]]_vars

\* the reading client has had a response without next_cursor
PagerDone == pager # None /\ pager[1].done

\* C29: what the client has collected is at every moment the newest
\* entries of the history, newest first and each once; when it is done it
\* has the whole history; and it is done after finitely many calls.
C29_PagingCoversHistory ==
    /\ [](pager # None =>
            LET newestFirst == Reversed(HistoryOf(table, <<(<<"r1">>), 0>>))
                collected == pager[1].collected
            IN  /\ Len(collected) <= Len(newestFirst)
                /\ collected = SubSeq(newestFirst, 1, Len(collected))
                /\ pager[1].done => collected = newestFirst)
    /\ <>PagerDone

\* C29 witness: the client is done after more than one call and has
\* collected a history of three entries
C29_Witness ==
    /\ PagerDone
    /\ pager[1].calls > 1
    /\ Len(pager[1].collected) = 3

\* the lines the objects of the audit bucket hold
StoredLines ==
    UNION {{auditObjects[minute][1][i] : i \in DOMAIN auditObjects[minute][1]} :
              minute \in {m \in Times : auditObjects[m] # None}}

\* C30 (as claimed): the line of every stream record handed to audit_sink
\* so far is in an object of the audit bucket.
C30_SinkKeepsRecords ==
    \A record \in streamed : Line(record) \in StoredLines
====
